---- MODULE Spec2Model ----
(***************************************************************************)
(* Pattern discovery and validation engine of auto-stock                   *)
(* (src/src/discovery): profit-case finder, pattern generator, frequency   *)
(* validator, profitability validator.                                     *)
(*                                                                         *)
(* Numbers.  Indicator values and range bounds are fixed-point integers in *)
(* units of 1/200 (see Num): frames carry indicator values that are        *)
(* multiples of 1/10, so that the interpolated percentiles of              *)
(* _analyze_features (steps of 1/100 between two values) are exact.        *)
(* Ratios (returns, win rates, baselines, lifts) are exact fractions       *)
(* [n, d] in lowest terms.  Python indices are 0-based: At(df, i) is       *)
(* df.iloc[i].                                                             *)
(***************************************************************************)
EXTENDS Integers, Sequences, FiniteSets, TLC

\* ------------------------------------------------------------------ bounds
\* longest frame enumerated bar by bar
MaxTiny == 4
\* largest holding period of the direct calls
MaxHolding == 3
\* repetitions of a motif in the tail and in the head of a generated frame
MidReps == 12
BigReps == 24
\* the longest lookback window of check_signals
MaxLookback == 8

\* --------------------------------------------------------------- fractions
RECURSIVE Gcd(_, _)
Gcd(a, b) == IF b = 0 THEN a ELSE Gcd(b, a % b)

Abs(x) == IF x < 0 THEN -x ELSE x

\* the fraction n/d (d # 0) in lowest terms with a positive denominator
Rat(n, d) ==
    LET g == Gcd(Abs(n), Abs(d))
        s == IF d < 0 THEN -1 ELSE 1
    IN [n |-> (s * n) \div g, d |-> (s * d) \div g]

Zero == [n |-> 0, d |-> 1]

RatLt(a, b)  == a.n * b.d < b.n * a.d
RatLe(a, b)  == a.n * b.d <= b.n * a.d
RatAdd(a, b) == Rat(a.n * b.d + b.n * a.d, a.d * b.d)
\* a / b for b # 0
RatDiv(a, b) == Rat(a.n * b.d, a.d * b.n)

\* the decimal literal n/d of the source in units of 1/200
Num(n, d) == (200 * n) \div d

\* -------------------------------------------------------------- the frame
\* an indicator cell: <<v>> is the value v, <<>> is NaN
NaN == <<>>
isna(val) == val = <<>>

\* df.iloc[i], df['Close'].iloc[i] and df.index[i] for a 0-based i
At(df, i)    == df[i + 1]
CloseAt(df, i) == df[i + 1].Close
DateAt(df, i)  == df[i + 1].Date

\* df.iloc[a:b] with 0 <= a and b clipped to len(df)
Slice(df, a, b) ==
    LET e == IF b > Len(df) THEN Len(df) ELSE b
    IN IF a >= e THEN << >> ELSE SubSeq(df, a + 1, e)

\* ------------------------------------------------------ profit_cases.py
\* return_pct = (exit_price / entry_price - 1) * 100
ReturnPct(entry, exit) == Rat(100 * (exit - entry), entry)

ProfitCase(df, i, holding_period) ==
    [ date_idx     |-> i,
      date         |-> DateAt(df, i),
      entry_price  |-> CloseAt(df, i),
      exit_price   |-> CloseAt(df, i + holding_period),
      return_pct   |-> ReturnPct(CloseAt(df, i), CloseAt(df, i + holding_period)),
      holding_days |-> holding_period ]

\* range(n): the indices 0, 1, ..., n - 1 in order (empty for n <= 0)
range(n) == [ k \in 1..(IF n > 0 THEN n ELSE 0) |-> k - 1 ]

\* a variant that accepts only returns strictly above the threshold
find_profit_cases_strict(df, holding_period, min_return) ==
    LET hits == SelectSeq(range(Len(df) - holding_period),
                    LAMBDA i : RatLt(Rat(min_return, 1),
                        ReturnPct(CloseAt(df, i), CloseAt(df, i + holding_period))))
    IN [ k \in 1..Len(hits) |-> ProfitCase(df, hits[k], holding_period) ]

\* a variant that keeps the returns at or below the threshold
find_profit_cases_below(df, holding_period, min_return) ==
    LET hits == SelectSeq(range(Len(df) - holding_period),
                    LAMBDA i : RatLe(ReturnPct(CloseAt(df, i), CloseAt(df, i + holding_period)),
                        Rat(min_return, 1)))
    IN [ k \in 1..Len(hits) |-> ProfitCase(df, hits[k], holding_period) ]

\* for i in range(len(df) - holding_period): if return_pct >= min_return:
\* cases.append(ProfitCase(...))
find_profit_cases(df, holding_period, min_return) ==
    LET hits == SelectSeq(range(Len(df) - holding_period),
                    LAMBDA i : RatLe(Rat(min_return, 1),
                        ReturnPct(CloseAt(df, i), CloseAt(df, i + holding_period))))
    IN [ k \in 1..Len(hits) |-> ProfitCase(df, hits[k], holding_period) ]

\* ---------------------------------------- PatternDefinition / ValidatedPattern
\* conditions is the dict {indicator: (min, max)} in insertion order: a
\* sequence of [ind, lo, hi]; row is one bar's indicator cells by column.

\* PatternDefinition.check: the loop over conditions.items() from item k on
RECURSIVE CheckLoop(_, _, _)
CheckLoop(conditions, row, k) ==
    IF k > Len(conditions) THEN TRUE
    ELSE LET c == conditions[k] IN
         IF c.ind \notin DOMAIN row THEN FALSE
         ELSE IF isna(row[c.ind]) THEN FALSE
         ELSE IF ~(c.lo <= row[c.ind][1] /\ row[c.ind][1] <= c.hi) THEN FALSE
         ELSE CheckLoop(conditions, row, k + 1)

\* a variant that treats the upper bound as exclusive
PatternCheckOpen(pattern, row) ==
    \A k \in 1..Len(pattern.conditions) :
        LET c == pattern.conditions[k]
        IN /\ c.ind \in DOMAIN row
           /\ ~isna(row[c.ind])
           /\ c.lo <= row[c.ind][1] /\ row[c.ind][1] < c.hi

PatternCheck(pattern, row) == CheckLoop(pattern.conditions, row, 1)

\* ValidatedPattern.check: the same loop, written a second time in the source
RECURSIVE VCheckLoop(_, _, _)
VCheckLoop(conditions, row, k) ==
    IF k > Len(conditions) THEN TRUE
    ELSE LET c == conditions[k] IN
         IF c.ind \notin DOMAIN row THEN FALSE
         ELSE IF isna(row[c.ind]) THEN FALSE
         ELSE IF ~(c.lo <= row[c.ind][1] /\ row[c.ind][1] <= c.hi) THEN FALSE
         ELSE VCheckLoop(conditions, row, k + 1)

ValidatedCheck(pattern, row) == VCheckLoop(pattern.conditions, row, 1)

\* ------------------------------------------- PatternFinder._analyze_features
IndicatorList ==
    << "rsi", "macd_hist", "bb_position", "momentum_10", "momentum_20",
       "volume_ratio", "volatility_20", "returns", "range_position",
       "price_vs_ma_short", "price_vs_ma_medium", "price_vs_ma_long" >>

Indicators == { IndicatorList[k] : k \in 1..Len(IndicatorList) }

\* feature_values[ind]: the values of ind at the cases, in order; a case at
\* index 0 is skipped, and so is a missing column or a NaN cell
FeatureValues(df, cases, ind) ==
    LET used == SelectSeq(cases,
                    LAMBDA case : /\ ~(case.date_idx < 1)
                                  /\ ind \in DOMAIN At(df, case.date_idx).ind
                                  /\ ~isna(At(df, case.date_idx).ind[ind]))
    IN [ k \in 1..Len(used) |-> At(df, used[k].date_idx).ind[ind][1] ]

\* np.percentile(arr, q), linear interpolation, on the sorted values
Percentile(sorted, q) ==
    LET pos == q * (Len(sorted) - 1)
        lo  == pos \div 100
        rem == pos % 100
    IN IF rem = 0 THEN sorted[lo + 1]
       ELSE sorted[lo + 1] + (rem * (sorted[lo + 2] - sorted[lo + 1])) \div 100

\* the statistics the generator can read (mean and std, which no consumer
\* reads, have no exact fixed-point value and are left out)
StatsOf(values) ==
    LET sorted == SortSeq(values, <)
    IN [ min   |-> sorted[1],
         max   |-> sorted[Len(sorted)],
         p10   |-> Percentile(sorted, 10),
         p25   |-> Percentile(sorted, 25),
         p50   |-> Percentile(sorted, 50),
         p75   |-> Percentile(sorted, 75),
         p90   |-> Percentile(sorted, 90),
         count |-> Len(values) ]

\* an indicator with fewer than 10 observations gets no entry
analyze_features(df, cases) ==
    [ ind \in { x \in Indicators : Len(FeatureValues(df, cases, x)) >= 10 }
        |-> StatsOf(FeatureValues(df, cases, ind)) ]

\* -------------------------------------------- PatternFinder._define_patterns
Cond(ind, lo, hi) == [ind |-> ind, lo |-> lo, hi |-> hi]

PatternDefinition(name, category, description, conditions) ==
    [ name |-> name, category |-> category, description |-> description,
      conditions |-> conditions ]

RsiPatterns(feature_stats) ==
    IF "rsi" \in DOMAIN feature_stats THEN
    << PatternDefinition("RSI_Oversold_30", "momentum", "RSI <= 30",
            <<Cond("rsi", Num(0, 1), Num(30, 1))>>),
       PatternDefinition("RSI_Oversold_35", "momentum", "RSI <= 35",
            <<Cond("rsi", Num(0, 1), Num(35, 1))>>),
       PatternDefinition("RSI_Oversold_40", "momentum", "RSI <= 40",
            <<Cond("rsi", Num(0, 1), Num(40, 1))>>),
       PatternDefinition("RSI_Neutral_Low", "momentum", "RSI 40-50",
            <<Cond("rsi", Num(40, 1), Num(50, 1))>>),
       PatternDefinition("RSI_Neutral_High", "momentum", "RSI 50-60",
            <<Cond("rsi", Num(50, 1), Num(60, 1))>>) >>
    ELSE << >>

MomentumPatterns(feature_stats) ==
    (IF "momentum_10" \in DOMAIN feature_stats THEN
     << PatternDefinition("Momentum10_VeryNegative", "momentum", "momentum_10 <= -10%",
            <<Cond("momentum_10", Num(-100, 1), Num(-10, 1))>>),
        PatternDefinition("Momentum10_Negative", "momentum", "momentum_10 -5% ~ -10%",
            <<Cond("momentum_10", Num(-10, 1), Num(-5, 1))>>),
        PatternDefinition("Momentum10_SlightNegative", "momentum", "momentum_10 -5% ~ 0%",
            <<Cond("momentum_10", Num(-5, 1), Num(0, 1))>>) >>
     ELSE << >>)
    \o
    (IF "momentum_20" \in DOMAIN feature_stats THEN
     << PatternDefinition("Momentum20_VeryNegative", "momentum", "momentum_20 <= -15%",
            <<Cond("momentum_20", Num(-100, 1), Num(-15, 1))>>),
        PatternDefinition("Momentum20_Negative", "momentum", "momentum_20 -10% ~ -15%",
            <<Cond("momentum_20", Num(-15, 1), Num(-10, 1))>>),
        PatternDefinition("Momentum20_SlightNegative", "momentum", "momentum_20 -10% ~ 0%",
            <<Cond("momentum_20", Num(-10, 1), Num(0, 1))>>) >>
     ELSE << >>)

BollingerPatterns(feature_stats) ==
    IF "bb_position" \in DOMAIN feature_stats THEN
    << PatternDefinition("BB_BelowLower", "volatility", "below lower band (position < 0)",
            <<Cond("bb_position", Num(-10, 1), Num(0, 1))>>),
       PatternDefinition("BB_NearLower", "volatility", "near lower band (0-0.2)",
            <<Cond("bb_position", Num(0, 1), Num(2, 10))>>),
       PatternDefinition("BB_LowerHalf", "volatility", "lower half (0.2-0.5)",
            <<Cond("bb_position", Num(2, 10), Num(5, 10))>>),
       PatternDefinition("BB_Middle", "volatility", "middle (0.4-0.6)",
            <<Cond("bb_position", Num(4, 10), Num(6, 10))>>) >>
    ELSE << >>

MovingAveragePatterns(feature_stats) ==
    (IF "price_vs_ma_short" \in DOMAIN feature_stats THEN
     << PatternDefinition("Price_Below_MA20_5pct", "trend", "5%+ below MA20",
            <<Cond("price_vs_ma_short", Num(-100, 1), Num(-5, 1))>>),
        PatternDefinition("Price_Below_MA20_2pct", "trend", "-2% ~ -5% vs MA20",
            <<Cond("price_vs_ma_short", Num(-5, 1), Num(-2, 1))>>),
        PatternDefinition("Price_Near_MA20", "trend", "near MA20 (-2% ~ +2%)",
            <<Cond("price_vs_ma_short", Num(-2, 1), Num(2, 1))>>) >>
     ELSE << >>)
    \o
    (IF "price_vs_ma_medium" \in DOMAIN feature_stats THEN
     << PatternDefinition("Price_Below_MA50_10pct", "trend", "10%+ below MA50",
            <<Cond("price_vs_ma_medium", Num(-100, 1), Num(-10, 1))>>),
        PatternDefinition("Price_Below_MA50_5pct", "trend", "-5% ~ -10% vs MA50",
            <<Cond("price_vs_ma_medium", Num(-10, 1), Num(-5, 1))>>),
        PatternDefinition("Price_Near_MA50", "trend", "near MA50 (-5% ~ +2%)",
            <<Cond("price_vs_ma_medium", Num(-5, 1), Num(2, 1))>>) >>
     ELSE << >>)

VolumePatterns(feature_stats) ==
    IF "volume_ratio" \in DOMAIN feature_stats THEN
    << PatternDefinition("Volume_Spike", "volume", "volume 2x or more",
            <<Cond("volume_ratio", Num(2, 1), Num(100, 1))>>),
       PatternDefinition("Volume_High", "volume", "volume 1.5x or more",
            <<Cond("volume_ratio", Num(15, 10), Num(2, 1))>>),
       PatternDefinition("Volume_Normal", "volume", "volume 0.8-1.2x",
            <<Cond("volume_ratio", Num(8, 10), Num(12, 10))>>) >>
    ELSE << >>

VolatilityPatterns(feature_stats) ==
    IF "volatility_20" \in DOMAIN feature_stats THEN
    LET s == feature_stats["volatility_20"] IN
    << PatternDefinition("Volatility_High", "volatility", "high volatility (top 25%)",
            <<Cond("volatility_20", s.p75, s.max * 2)>>),
       PatternDefinition("Volatility_Medium", "volatility", "medium volatility",
            <<Cond("volatility_20", s.p25, s.p75)>>),
       PatternDefinition("Volatility_Low", "volatility", "low volatility (bottom 25%)",
            <<Cond("volatility_20", Num(0, 1), s.p25)>>) >>
    ELSE << >>

\* the composite patterns: the first five are appended whatever the table holds
ComboPatterns(feature_stats) ==
    << PatternDefinition("Combo_Oversold_Momentum", "composite",
            "RSI < 40 AND momentum_10 < -5%",
            <<Cond("rsi", Num(0, 1), Num(40, 1)),
              Cond("momentum_10", Num(-100, 1), Num(-5, 1))>>),
       PatternDefinition("Combo_BB_RSI_Oversold", "composite",
            "near lower band AND RSI < 40",
            <<Cond("bb_position", Num(-10, 1), Num(3, 10)),
              Cond("rsi", Num(0, 1), Num(40, 1))>>),
       PatternDefinition("Combo_Below_MA_Volume", "composite",
            "3%+ below MA20 AND volume 1.3x+",
            <<Cond("price_vs_ma_short", Num(-100, 1), Num(-3, 1)),
              Cond("volume_ratio", Num(13, 10), Num(100, 1))>>),
       PatternDefinition("Combo_Strong_Dip", "composite",
            "momentum_20 < -10% AND lower band",
            <<Cond("momentum_20", Num(-100, 1), Num(-10, 1)),
              Cond("bb_position", Num(-10, 1), Num(3, 10))>>),
       PatternDefinition("Combo_Mild_Pullback", "composite",
            "momentum_10 -3%~0% AND RSI 40-55",
            <<Cond("momentum_10", Num(-3, 1), Num(0, 1)),
              Cond("rsi", Num(40, 1), Num(55, 1))>>) >>
    \o
    (IF "volatility_20" \in DOMAIN feature_stats THEN
     LET s == feature_stats["volatility_20"] IN
     << PatternDefinition("Combo_Deep_Dip_HighVol", "composite",
            "momentum_20 < -15% AND high volatility",
            <<Cond("momentum_20", Num(-100, 1), Num(-15, 1)),
              Cond("volatility_20", s.p50, s.max * 2)>>) >>
     ELSE << >>)

define_patterns(feature_stats) ==
    RsiPatterns(feature_stats) \o MomentumPatterns(feature_stats)
    \o BollingerPatterns(feature_stats) \o MovingAveragePatterns(feature_stats)
    \o VolumePatterns(feature_stats) \o VolatilityPatterns(feature_stats)
    \o ComboPatterns(feature_stats)

\* ----------------------------------------- PatternFinder._validate_frequency
\* the thresholds of the pass criterion
MinDiscoveryCount == 10
MinValidationCount == 5
\* freq_ratio >= 0.3
MinFreqRatio == [n |-> 3, d |-> 10]

\* a variant that counts a match only when the next bar closes higher
pattern_hits_confirmed(df, pattern, n) ==
    SelectSeq(range(n), LAMBDA idx :
        /\ PatternCheck(pattern, At(df, idx).ind)
        /\ idx + 1 < Len(df) => CloseAt(df, idx + 1) > CloseAt(df, idx))

\* for idx in range(n): if pattern.check(df.iloc[idx]): the indices idx, in
\* order, at which the loops of both validators find the pattern
pattern_hits(df, pattern, n) ==
    SelectSeq(range(n), LAMBDA idx : PatternCheck(pattern, At(df, idx).ind))

\* for idx in range(len(seg)): if pattern.check(seg.iloc[idx]): count += 1
CountMatches(seg, pattern) == Len(pattern_hits(seg, pattern, Len(seg)))

\* a variant that divides as integers
FrequencyFloor(count, seg) ==
    IF Len(seg) > 0 THEN Rat((count * 100) \div Len(seg), 1) ELSE Zero

\* count / len(seg) * 100 if len(seg) > 0 else 0
Frequency(count, seg) ==
    IF Len(seg) > 0 THEN Rat(count * 100, Len(seg)) ELSE Zero

\* a variant that drops the minimum on the discovery count
FrequencyPassedNoMin(discovery_count, validation_count, freq_ratio) ==
    /\ validation_count >= MinValidationCount
    /\ RatLe(MinFreqRatio, freq_ratio)

\* the three thresholds of the pass criterion, as the source has them
FrequencyThresholds ==
    [ min_discovery |-> MinDiscoveryCount, min_validation |-> MinValidationCount,
      min_ratio |-> MinFreqRatio ]

\* a variant that takes the ratio threshold as a ceiling
FrequencyPassedWithCeiling(discovery_count, validation_count, freq_ratio, th) ==
    /\ discovery_count >= th.min_discovery
    /\ validation_count >= th.min_validation
    /\ RatLe(freq_ratio, RatAdd(th.min_ratio, [n |-> 7, d |-> 10]))

\* passed = (discovery_count >= 10 and validation_count >= 5 and
\* freq_ratio >= 0.3), for the thresholds th
FrequencyPassedWith(discovery_count, validation_count, freq_ratio, th) ==
    /\ discovery_count >= th.min_discovery
    /\ validation_count >= th.min_validation
    /\ RatLe(th.min_ratio, freq_ratio)

FrequencyPassed(discovery_count, validation_count, freq_ratio) ==
    FrequencyPassedWith(discovery_count, validation_count, freq_ratio, FrequencyThresholds)

\* the PatternStats of one pattern (one turn of the loop over patterns)
PatternStats(df_discovery, df_validation, pattern) ==
    LET discovery_count  == CountMatches(df_discovery, pattern)
        validation_count == CountMatches(df_validation, pattern)
        discovery_freq   == Frequency(discovery_count, df_discovery)
        validation_freq  == Frequency(validation_count, df_validation)
        freq_ratio       == IF RatLt(Zero, discovery_freq)
                            THEN RatDiv(validation_freq, discovery_freq) ELSE Zero
    IN [ name                  |-> pattern.name,
         discovery_count       |-> discovery_count,
         discovery_total_days  |-> Len(df_discovery),
         discovery_frequency   |-> discovery_freq,
         validation_count      |-> validation_count,
         validation_total_days |-> Len(df_validation),
         validation_frequency  |-> validation_freq,
         frequency_ratio       |-> freq_ratio,
         passed |-> FrequencyPassed(discovery_count, validation_count, freq_ratio) ]

\* a variant that starts the validation segment at the boundary bar itself
validate_frequency_stats_overlap(df, patterns, discovery_end_idx) ==
    LET df_discovery  == Slice(df, 0, discovery_end_idx + 1)
        df_validation == Slice(df, discovery_end_idx, Len(df))
    IN [ k \in 1..Len(patterns) |->
            PatternStats(df_discovery, df_validation, patterns[k]) ]

\* stats_list: one PatternStats per pattern, in the order of patterns
validate_frequency_stats(df, patterns, discovery_end_idx) ==
    LET df_discovery  == Slice(df, 0, discovery_end_idx + 1)
        df_validation == Slice(df, discovery_end_idx + 1, Len(df))
    IN [ k \in 1..Len(patterns) |->
            PatternStats(df_discovery, df_validation, patterns[k]) ]

\* a variant that empties the conditions of the patterns it hands on
SelectFlaggedCleared(patterns, flags) ==
    LET keep == SelectSeq([ k \in 1..Len(patterns) |-> k ], LAMBDA k : flags[k])
    IN [ j \in 1..Len(keep) |-> [ patterns[keep[j]] EXCEPT !.conditions = << >> ] ]

\* the elements of patterns whose flag is set, in order
SelectFlagged(patterns, flags) ==
    LET keep == SelectSeq([ k \in 1..Len(patterns) |-> k ], LAMBDA k : flags[k])
    IN [ j \in 1..Len(keep) |-> patterns[keep[j]] ]

\* a variant that hands every generated pattern on
validate_frequency_all(patterns, stats) == patterns

\* passed_patterns
validate_frequency_passed(patterns, stats) ==
    SelectFlagged(patterns, [k \in 1..Len(stats) |-> stats[k].passed])

\* -------------------------------------------------------- PatternValidator
\* the thresholds of the validation criterion
MinTrainDays == 20
MinTestDays == 10
\* win rate > baseline + 0.05
WinRateMargin == [n |-> 1, d |-> 20]
\* lift >= 1.2
MinLift == [n |-> 6, d |-> 5]

\* int(n * 0.7) in double arithmetic for n < 1200, and int(n * 0.67) for
\* n < 300: n * 0.7 falls just below the exact integer value at sixteen n
\* a variant that rounds to the nearest bar instead of truncating
IntTrainRatioRounded(n) == (7 * n + 5) \div 10

IntTrainRatio(n) ==
    IF n \in {90, 170, 180, 330, 340, 350, 360, 650, 660, 670, 680, 690, 700, 710, 720, 730}
    THEN (7 * n) \div 10 - 1 ELSE (7 * n) \div 10
IntDiscoveryRatio(n) == (67 * n) \div 100

\* _calculate_baseline: profit_count at the end of the loop
BaselineProfitCount(df, holding_period, min_return) ==
    Len(SelectSeq(range(Len(df) - holding_period),
            LAMBDA idx : RatLe(Rat(min_return, 1),
                ReturnPct(CloseAt(df, idx), CloseAt(df, idx + holding_period)))))

\* a variant that divides by the segment length
calculate_baseline_len(df, holding_period, min_return) ==
    IF Len(df) - holding_period > 0
    THEN Rat(BaselineProfitCount(df, holding_period, min_return), Len(df))
    ELSE Zero

calculate_baseline(df, holding_period, min_return) ==
    LET total_count  == IF Len(df) - holding_period > 0
                        THEN Len(df) - holding_period ELSE 0
        profit_count == BaselineProfitCount(df, holding_period, min_return)
    IN IF total_count > 0 THEN Rat(profit_count, total_count) ELSE Zero

\* _check_pattern_returns: the list  returns  at the end of the loop
PatternReturns(df, pattern, holding_period) ==
    LET hits == pattern_hits(df, pattern, Len(df) - holding_period)
    IN [ k \in 1..Len(hits) |->
            ReturnPct(CloseAt(df, hits[k]), CloseAt(df, hits[k] + holding_period)) ]

\* the sum of the fractions rs, taken value by value over the set vals of
\* its distinct values
RECURSIVE RatSumBy(_, _)
RatSumBy(rs, vals) ==
    IF vals = {} THEN Zero
    ELSE LET v == CHOOSE x \in vals : TRUE
             c == Cardinality({ k \in 1..Len(rs) : rs[k] = v })
         IN RatAdd(Rat(c * v.n, v.d), RatSumBy(rs, vals \ {v}))

\* np.mean(returns) for a non-empty list
RatMean(rs) ==
    RatDiv(RatSumBy(rs, { rs[k] : k \in 1..Len(rs) }), Rat(Len(rs), 1))

\* the number of returns >= min_return
CountProfit(rs, min_return) ==
    Len(SelectSeq(rs, LAMBDA r : RatLe(Rat(min_return, 1), r)))

\* a variant that scans every bar of the segment and takes as exit the last bar
\* when the horizon runs past the end
check_pattern_returns_all(df, pattern, holding_period, min_return) ==
    LET idxs == { i \in 0..Len(df) - 1 : PatternCheck(pattern, At(df, i).ind) }
        wins == { i \in idxs :
                    LET e == IF i + holding_period < Len(df)
                             THEN i + holding_period ELSE Len(df) - 1
                    IN RatLe(Rat(min_return, 1),
                             ReturnPct(CloseAt(df, i), CloseAt(df, e))) }
    IN [ pattern_days |-> Cardinality(idxs),
         profit_days  |-> Cardinality(wins),
         win_rate     |-> IF Cardinality(idxs) > 0
                          THEN Rat(Cardinality(wins), Cardinality(idxs)) ELSE Zero,
         avg_return   |-> Zero ]

check_pattern_returns(df, pattern, holding_period, min_return) ==
    LET returns      == PatternReturns(df, pattern, holding_period)
        pattern_days == Len(returns)
        profit_days  == CountProfit(returns, min_return)
    IN [ pattern_days |-> pattern_days,
         profit_days  |-> profit_days,
         win_rate     |-> IF pattern_days > 0
                          THEN Rat(profit_days, pattern_days) ELSE Zero,
         avg_return   |-> IF pattern_days > 0
                          THEN RatMean(returns)
                          ELSE Zero ]

\* a variant that divides whatever the baseline is, as float division in numpy
\* does: x / 0 is inf, written 1/0
LiftInf(win_rate, baseline) ==
    IF baseline.n = 0 THEN [n |-> 1, d |-> 0] ELSE RatDiv(win_rate, baseline)

\* lift = win_rate / baseline if baseline > 0 else 0
Lift(win_rate, baseline) ==
    IF RatLt(Zero, baseline) THEN RatDiv(win_rate, baseline) ELSE Zero

\* a variant that drops the minimum on the Test occurrences
ValidatedNoTestDays(train_stats, test_stats, baseline_train, baseline_test, lift_train, lift_test) ==
    /\ train_stats.pattern_days >= MinTrainDays
    /\ RatLt(RatAdd(baseline_train, WinRateMargin), train_stats.win_rate)
    /\ RatLt(RatAdd(baseline_test, WinRateMargin), test_stats.win_rate)
    /\ RatLe(MinLift, lift_train)
    /\ RatLe(MinLift, lift_test)

\* a variant that applies the win-rate margin and the lift minimum to Train only
ValidatedTrainOnly(train_stats, test_stats, baseline_train, baseline_test, lift_train, lift_test) ==
    /\ train_stats.pattern_days >= MinTrainDays
    /\ test_stats.pattern_days >= MinTestDays
    /\ RatLt(RatAdd(baseline_train, WinRateMargin), train_stats.win_rate)
    /\ RatLe(MinLift, lift_train)

\* validated = (... and ... and ...)
\* the thresholds of the criterion, as the source has them
ValidationThresholds ==
    [ min_train_days |-> MinTrainDays, min_test_days |-> MinTestDays,
      margin |-> WinRateMargin, min_lift |-> MinLift ]

\* a variant that accepts a pattern that does as well as the baseline
ValidatedAtBaseline(train_stats, test_stats, baseline_train, baseline_test, lift_train, lift_test, th) ==
    /\ train_stats.pattern_days >= th.min_train_days
    /\ test_stats.pattern_days >= th.min_test_days
    /\ RatLe(baseline_train, train_stats.win_rate)
    /\ RatLe(baseline_test, test_stats.win_rate)
    /\ RatLe([n |-> 1, d |-> 1], lift_train)
    /\ RatLe([n |-> 1, d |-> 1], lift_test)

\* a variant that asks of Test the minimum of Train
ValidatedTestAsTrain(train_stats, test_stats, baseline_train, baseline_test, lift_train, lift_test, th) ==
    /\ train_stats.pattern_days >= th.min_train_days
    /\ test_stats.pattern_days >= th.min_train_days
    /\ RatLt(RatAdd(baseline_train, th.margin), train_stats.win_rate)
    /\ RatLt(RatAdd(baseline_test, th.margin), test_stats.win_rate)
    /\ RatLe(th.min_lift, lift_train)
    /\ RatLe(th.min_lift, lift_test)

\* the criterion for the thresholds th
ValidatedWith(train_stats, test_stats, baseline_train, baseline_test, lift_train, lift_test, th) ==
    /\ train_stats.pattern_days >= th.min_train_days
    /\ test_stats.pattern_days >= th.min_test_days
    /\ RatLt(RatAdd(baseline_train, th.margin), train_stats.win_rate)
    /\ RatLt(RatAdd(baseline_test, th.margin), test_stats.win_rate)
    /\ RatLe(th.min_lift, lift_train)
    /\ RatLe(th.min_lift, lift_test)

Validated(train_stats, test_stats, baseline_train, baseline_test, lift_train, lift_test) ==
    ValidatedWith(train_stats, test_stats, baseline_train, baseline_test, lift_train, lift_test, ValidationThresholds)

\* _validate_single_pattern: the PatternPerformance of one pattern
validate_single_pattern(df_train, df_test, pattern, baseline_train, baseline_test, holding_period, min_return) ==
    LET train_stats == check_pattern_returns(df_train, pattern, holding_period, min_return)
        test_stats  == check_pattern_returns(df_test, pattern, holding_period, min_return)
        lift_train  == Lift(train_stats.win_rate, baseline_train)
        lift_test   == Lift(test_stats.win_rate, baseline_test)
    IN [ name               |-> pattern.name,
         train_pattern_days |-> train_stats.pattern_days,
         train_profit_days  |-> train_stats.profit_days,
         train_win_rate     |-> train_stats.win_rate,
         train_avg_return   |-> train_stats.avg_return,
         test_pattern_days  |-> test_stats.pattern_days,
         test_profit_days   |-> test_stats.profit_days,
         test_win_rate      |-> test_stats.win_rate,
         test_avg_return    |-> test_stats.avg_return,
         baseline_win_rate  |-> baseline_train,
         lift_train         |-> lift_train,
         lift_test          |-> lift_test,
         validated |-> Validated(train_stats, test_stats, baseline_train,
                                 baseline_test, lift_train, lift_test) ]

\* ------------------------------------------------- validated_patterns.py
\* the catalog, in its source order; win rates are in thousandths, average
\* returns in tenths of a percent and lifts in hundredths (the description
\* text is left out)
VALIDATED_PATTERNS ==
    <<
       [ name |-> "Combo_Strong_Dip", category |-> "composite",
         conditions |-> << Cond("momentum_20", Num(-100, 1), Num(-10, 1)), Cond("bb_position", Num(-10, 1), Num(3, 10)) >>,
         train_occurrences |-> 46, train_win_rate |-> 370,
         train_avg_return |-> 95, test_occurrences |-> 11,
         test_win_rate |-> 1000, test_avg_return |-> 176,
         lift |-> 284 ],
       [ name |-> "Momentum20_Negative", category |-> "momentum",
         conditions |-> << Cond("momentum_20", Num(-15, 1), Num(-10, 1)) >>,
         train_occurrences |-> 41, train_win_rate |-> 268,
         train_avg_return |-> 57, test_occurrences |-> 13,
         test_win_rate |-> 923, test_avg_return |-> 166,
         lift |-> 262 ],
       [ name |-> "RSI_Oversold_35", category |-> "momentum",
         conditions |-> << Cond("rsi", Num(0, 1), Num(35, 1)) >>,
         train_occurrences |-> 68, train_win_rate |-> 368,
         train_avg_return |-> 73, test_occurrences |-> 23,
         test_win_rate |-> 739, test_avg_return |-> 152,
         lift |-> 210 ],
       [ name |-> "BB_BelowLower", category |-> "volatility",
         conditions |-> << Cond("bb_position", Num(-10, 1), Num(0, 1)) >>,
         train_occurrences |-> 71, train_win_rate |-> 352,
         train_avg_return |-> 77, test_occurrences |-> 23,
         test_win_rate |-> 739, test_avg_return |-> 147,
         lift |-> 210 ],
       [ name |-> "Price_Below_MA20_5pct", category |-> "trend",
         conditions |-> << Cond("price_vs_ma_short", Num(-100, 1), Num(-5, 1)) >>,
         train_occurrences |-> 93, train_win_rate |-> 430,
         train_avg_return |-> 89, test_occurrences |-> 23,
         test_win_rate |-> 739, test_avg_return |-> 153,
         lift |-> 210 ],
       [ name |-> "RSI_Oversold_40", category |-> "momentum",
         conditions |-> << Cond("rsi", Num(0, 1), Num(40, 1)) >>,
         train_occurrences |-> 177, train_win_rate |-> 305,
         train_avg_return |-> 63, test_occurrences |-> 60,
         test_win_rate |-> 733, test_avg_return |-> 138,
         lift |-> 208 ],
       [ name |-> "Combo_BB_RSI_Oversold", category |-> "composite",
         conditions |-> << Cond("bb_position", Num(-10, 1), Num(3, 10)), Cond("rsi", Num(0, 1), Num(40, 1)) >>,
         train_occurrences |-> 171, train_win_rate |-> 304,
         train_avg_return |-> 63, test_occurrences |-> 59,
         test_win_rate |-> 729, test_avg_return |-> 139,
         lift |-> 207 ],
       [ name |-> "Momentum10_Negative", category |-> "momentum",
         conditions |-> << Cond("momentum_10", Num(-10, 1), Num(-5, 1)) >>,
         train_occurrences |-> 134, train_win_rate |-> 313,
         train_avg_return |-> 50, test_occurrences |-> 41,
         test_win_rate |-> 683, test_avg_return |-> 131,
         lift |-> 194 ],
       [ name |-> "Combo_Oversold_Momentum", category |-> "composite",
         conditions |-> << Cond("rsi", Num(0, 1), Num(40, 1)), Cond("momentum_10", Num(-100, 1), Num(-5, 1)) >>,
         train_occurrences |-> 115, train_win_rate |-> 374,
         train_avg_return |-> 80, test_occurrences |-> 35,
         test_win_rate |-> 657, test_avg_return |-> 138,
         lift |-> 186 ],
       [ name |-> "Price_Below_MA20_2pct", category |-> "trend",
         conditions |-> << Cond("price_vs_ma_short", Num(-5, 1), Num(-2, 1)) >>,
         train_occurrences |-> 194, train_win_rate |-> 268,
         train_avg_return |-> 40, test_occurrences |-> 87,
         test_win_rate |-> 644, test_avg_return |-> 116,
         lift |-> 183 ],
       [ name |-> "Combo_Below_MA_Volume", category |-> "composite",
         conditions |-> << Cond("price_vs_ma_short", Num(-100, 1), Num(-3, 1)), Cond("volume_ratio", Num(13, 10), Num(100, 1)) >>,
         train_occurrences |-> 96, train_win_rate |-> 365,
         train_avg_return |-> 60, test_occurrences |-> 25,
         test_win_rate |-> 600, test_avg_return |-> 136,
         lift |-> 170 ],
       [ name |-> "BB_NearLower", category |-> "volatility",
         conditions |-> << Cond("bb_position", Num(0, 1), Num(2, 10)) >>,
         train_occurrences |-> 160, train_win_rate |-> 300,
         train_avg_return |-> 55, test_occurrences |-> 60,
         test_win_rate |-> 567, test_avg_return |-> 96,
         lift |-> 161 ],
       [ name |-> "Momentum20_SlightNegative", category |-> "momentum",
         conditions |-> << Cond("momentum_20", Num(-10, 1), Num(0, 1)) >>,
         train_occurrences |-> 487, train_win_rate |-> 269,
         train_avg_return |-> 46, test_occurrences |-> 178,
         test_win_rate |-> 556, test_avg_return |-> 105,
         lift |-> 158 ],
       [ name |-> "RSI_Neutral_Low", category |-> "momentum",
         conditions |-> << Cond("rsi", Num(40, 1), Num(50, 1)) >>,
         train_occurrences |-> 331, train_win_rate |-> 293,
         train_avg_return |-> 46, test_occurrences |-> 116,
         test_win_rate |-> 509, test_avg_return |-> 92,
         lift |-> 144 ]
    >>

\* max(0, x)
Max0(x) == IF x > 0 THEN x ELSE 0

\* range(a, b): the indices a, a + 1, ..., b - 1 in order (empty for b <= a)
range2(a, b) == [ k \in 1..(IF b > a THEN b - a ELSE 0) |-> a + k - 1 ]

\* a variant that starts the window one bar too early
start_idx_early(end_idx, lookback_days) == Max0(end_idx - lookback_days)

\* start_idx = max(0, end_idx - lookback_days + 1)
start_idx_of(end_idx, lookback_days) == Max0(end_idx - lookback_days + 1)

\* the dict appended for a bar and a pattern that matches it
Signal(df, idx, end_idx, pattern) ==
    [ pattern         |-> pattern.name,
      category        |-> pattern.category,
      date            |-> DateAt(df, idx),
      days_ago        |-> end_idx - idx,
      price           |-> CloseAt(df, idx),
      test_win_rate   |-> pattern.test_win_rate,
      test_avg_return |-> pattern.test_avg_return,
      lift            |-> pattern.lift ]

\* signals before the sort: for idx in range(start_idx, end_idx + 1): for
\* pattern in VALIDATED_PATTERNS: if pattern.check(row): signals.append(...)
appended_signals(df, lookback_days) ==
    LET end_idx   == Len(df) - 1
        start_idx == start_idx_of(end_idx, lookback_days)
        idxs      == range2(start_idx, end_idx + 1)
        n         == Len(VALIDATED_PATTERNS)
        turns     == [ k \in 1..(Len(idxs) * n) |->
                         << idxs[((k - 1) \div n) + 1], ((k - 1) % n) + 1 >> ]
        hits      == SelectSeq(turns, LAMBDA t :
                         ValidatedCheck(VALIDATED_PATTERNS[t[2]], At(df, t[1]).ind))
    IN [ k \in 1..Len(hits) |->
           Signal(df, hits[k][1], end_idx, VALIDATED_PATTERNS[hits[k][2]]) ]

\* a variant that puts positions of equal key in reverse order
StableOrderReversed(keys) ==
    SortSeq([ k \in 1..Len(keys) |-> k ],
        LAMBDA i, j : \/ keys[i][1] < keys[j][1]
                      \/ keys[i][1] = keys[j][1] /\ keys[i][2] < keys[j][2]
                      \/ keys[i] = keys[j] /\ i > j)

\* list.sort(key=...) is stable: the positions of the list ordered by their
\* key (a pair), positions of equal key in their original order
StableOrder(keys) ==
    SortSeq([ k \in 1..Len(keys) |-> k ],
        LAMBDA i, j : \/ keys[i][1] < keys[j][1]
                      \/ keys[i][1] = keys[j][1] /\ keys[i][2] < keys[j][2]
                      \/ keys[i] = keys[j] /\ i < j)

\* a variant that sorts equal days by ascending win rate
sort_signals_ascending(signals) ==
    LET order == StableOrder([ k \in 1..Len(signals) |->
                     << signals[k].days_ago, signals[k].test_win_rate >> ])
    IN [ k \in 1..Len(signals) |-> signals[order[k]] ]

\* signals.sort(key=lambda x: (x['days_ago'], -x['test_win_rate']))
sort_signals(signals) ==
    LET order == StableOrder([ k \in 1..Len(signals) |->
                     << signals[k].days_ago, -signals[k].test_win_rate >> ])
    IN [ k \in 1..Len(signals) |-> signals[order[k]] ]

check_signals(df, lookback_days) == sort_signals(appended_signals(df, lookback_days))

\* ValidatedPattern.to_dict: the dict of one record, key by key
to_dict(self) ==
    [ name              |-> self.name,
      category          |-> self.category,
      conditions        |-> self.conditions,
      train_occurrences |-> self.train_occurrences,
      train_win_rate    |-> self.train_win_rate,
      train_avg_return  |-> self.train_avg_return,
      test_occurrences  |-> self.test_occurrences,
      test_win_rate     |-> self.test_win_rate,
      test_avg_return   |-> self.test_avg_return,
      lift              |-> self.lift ]

\* the fields of the dataclass, and the record its constructor builds from a
\* dict given as keyword arguments
ValidatedPatternFields ==
    { "name", "category", "conditions", "train_occurrences", "train_win_rate",
      "train_avg_return", "test_occurrences", "test_win_rate", "test_avg_return",
      "lift" }

ValidatedPattern(d) == [ f \in ValidatedPatternFields |-> d[f] ]

\* get_pattern_by_name: the first record of the catalog with the name, or None
None == << >>

\* a variant that falls back on the first record
get_pattern_or_first(name) ==
    LET hits == SelectSeq(VALIDATED_PATTERNS, LAMBDA p : p.name = name)
    IN IF hits = << >> THEN VALIDATED_PATTERNS[1] ELSE hits[1]

get_pattern_by_name(name) ==
    LET hits == SelectSeq(VALIDATED_PATTERNS, LAMBDA p : p.name = name)
    IN IF hits = << >> THEN None ELSE hits[1]

\* ------------------------------------------------------------- the inputs
\* rows of indicator cells (multiples of 1/10): two oversold rows, a neutral
\* row and a warm-up row whose indicators are all undefined
DipRow ==
    [ ind \in Indicators |->
        CASE ind = "rsi"                -> <<Num(25, 1)>>
          [] ind = "macd_hist"          -> <<Num(-5, 10)>>
          [] ind = "bb_position"        -> <<Num(1, 10)>>
          [] ind = "momentum_10"        -> <<Num(-6, 1)>>
          [] ind = "momentum_20"        -> <<Num(-12, 1)>>
          [] ind = "volume_ratio"       -> <<Num(15, 10)>>
          [] ind = "volatility_20"      -> <<Num(30, 1)>>
          [] ind = "returns"            -> <<Num(-1, 1)>>
          [] ind = "range_position"     -> <<Num(2, 10)>>
          [] ind = "price_vs_ma_short"  -> <<Num(-6, 1)>>
          [] ind = "price_vs_ma_medium" -> <<Num(-11, 1)>>
          [] ind = "price_vs_ma_long"   -> <<Num(-4, 1)>> ]

DeepDipRow ==
    [ ind \in Indicators |->
        CASE ind = "rsi"                -> <<Num(33, 1)>>
          [] ind = "macd_hist"          -> <<Num(-9, 10)>>
          [] ind = "bb_position"        -> <<Num(-1, 10)>>
          [] ind = "momentum_10"        -> <<Num(-11, 1)>>
          [] ind = "momentum_20"        -> <<Num(-16, 1)>>
          [] ind = "volume_ratio"       -> <<Num(21, 10)>>
          [] ind = "volatility_20"      -> <<Num(453, 10)>>
          [] ind = "returns"            -> <<Num(-2, 1)>>
          [] ind = "range_position"     -> <<Num(1, 10)>>
          [] ind = "price_vs_ma_short"  -> <<Num(-4, 1)>>
          [] ind = "price_vs_ma_medium" -> <<Num(-7, 1)>>
          [] ind = "price_vs_ma_long"   -> <<Num(-9, 1)>> ]

CalmRow ==
    [ ind \in Indicators |->
        CASE ind = "rsi"                -> <<Num(55, 1)>>
          [] ind = "macd_hist"          -> <<Num(5, 10)>>
          [] ind = "bb_position"        -> <<Num(5, 10)>>
          [] ind = "momentum_10"        -> <<Num(1, 1)>>
          [] ind = "momentum_20"        -> <<Num(2, 1)>>
          [] ind = "volume_ratio"       -> <<Num(1, 1)>>
          [] ind = "volatility_20"      -> <<Num(15, 1)>>
          [] ind = "returns"            -> <<Num(5, 10)>>
          [] ind = "range_position"     -> <<Num(6, 10)>>
          [] ind = "price_vs_ma_short"  -> <<Num(1, 1)>>
          [] ind = "price_vs_ma_medium" -> <<Num(1, 1)>>
          [] ind = "price_vs_ma_long"   -> <<Num(3, 1)>> ]

WarmRow == [ ind \in Indicators |-> NaN ]

\* a frame from a sequence of <<close, row>>: bar k gets the date k, and the
\* columns in drop are absent from the frame
Frame(items, drop) ==
    [ k \in 1..Len(items) |->
        [ Date  |-> k,
          Close |-> items[k][1],
          ind   |-> [ c \in Indicators \ drop |-> items[k][2][c] ] ] ]

\* closes of the frames enumerated bar by bar: 100 -> 105, 107, 110 are
\* returns of exactly 5, 7 and 10 percent
TinyCloses == {100, 105, 107, 110}

RECURSIVE SeqsUpTo(_, _)
SeqsUpTo(S, n) ==
    IF n = 0 THEN { << >> }
    ELSE LET shorter == SeqsUpTo(S, n - 1)
         IN shorter \cup { Append(q, x) : q \in shorter, x \in S }

TinyFrames ==
    { Frame(items, {}) : items \in SeqsUpTo({ <<c, CalmRow>> : c \in TinyCloses }, MaxTiny) }

\* the grid of ProfitCaseFinder.__init__
MinReturns == {5, 7, 10}

\* motifs of the generated frames: a dip followed by a 10 percent rise, the
\* same with the deeper dip, a flat neutral bar, a neutral bar and a dip at
\* one flat price, and a warm-up bar
Motifs ==
    { << <<100, DipRow>>, <<110, CalmRow>> >>,
      << <<100, DeepDipRow>>, <<110, CalmRow>> >>,
      << <<110, CalmRow>> >>,
      << <<110, CalmRow>>, <<110, DipRow>> >>,
      << <<100, DipRow>>, <<110, DipRow>> >>,
      << <<100, WarmRow>> >> }

\* a generated frame is a long or short head followed by a shorter tail
HeadReps == {0, 1, BigReps}
TailReps == {0, 1, MidReps}

\* the motif repeated r times
Repeat(motif, r) ==
    [ k \in 1..(r * Len(motif)) |-> motif[((k - 1) % Len(motif)) + 1] ]

HeadSegments == { Repeat(m, r) : m \in Motifs, r \in HeadReps }
TailSegments == { Repeat(m, r) : m \in Motifs, r \in TailReps }

DropChoices == { {}, {"rsi"} }

\* holding periods of the pipeline and of the direct validator calls
PipelineHoldings == {1, 2}

\* min_return arguments of the pipeline runs: the default and break-even
PipelineMinReturns == {0, 10}

\* pattern lists handed directly to validate_patterns
EveryBar == PatternDefinition("EveryBar", "none", "no condition", << >>)

SampleTable == [ ind \in {"rsi", "momentum_10"} |-> StatsOf(<<Num(30, 1)>>) ]

PatternLists ==
    { << >>, <<EveryBar>>, define_patterns(SampleTable) }

\* rows and conditions handed directly to check
CheckCells ==
    { NaN, <<Num(-6, 1)>>, <<Num(0, 1)>>, <<Num(30, 1)>>, <<Num(40, 1)>>,
      <<Num(401, 10)>> }

CheckRows ==
    UNION { [ cols -> CheckCells ] : cols \in SUBSET {"rsi", "momentum_10"} }

CheckConds ==
    { Cond("rsi", Num(0, 1), Num(40, 1)), Cond("rsi", Num(40, 1), Num(50, 1)),
      Cond("momentum_10", Num(-100, 1), Num(-6, 1)),
      Cond("momentum_10", Num(0, 1), Num(30, 1)) }

CheckConditions ==
    { << >> } \cup { <<c>> : c \in CheckConds }
    \cup { <<p[1], p[2]>> : p \in { q \in CheckConds \X CheckConds : q[1].ind # q[2].ind } }


\* the names of the catalog records
CatalogNameSet == { VALIDATED_PATTERNS[k].name : k \in 1..Len(VALIDATED_PATTERNS) }

\* frames handed to check_signals: stretches of a tape of bars whose rows
\* match several catalog patterns, none, or exactly one
SoloRow(ind, cell) == [ c \in Indicators |-> IF c = ind THEN cell ELSE NaN ]

SignalTape ==
    << <<101, CalmRow>>, <<102, DipRow>>, <<103, WarmRow>>,
       <<104, SoloRow("momentum_20", <<Num(-12, 1)>>)>>,
       <<105, SoloRow("rsi", <<Num(38, 1)>>)>>,
       <<106, SoloRow("rsi", <<Num(45, 1)>>)>>,
       <<107, SoloRow("bb_position", <<Num(-1, 1)>>)>>,
       <<108, SoloRow("bb_position", <<Num(1, 10)>>)>>,
       <<109, SoloRow("price_vs_ma_short", <<Num(-6, 1)>>)>>,
       <<110, SoloRow("price_vs_ma_short", <<Num(-3, 1)>>)>>,
       <<111, SoloRow("momentum_10", <<Num(-6, 1)>>)>>,
       <<112, DeepDipRow>>,
       <<113, SoloRow("rsi", <<Num(40, 1)>>)>> >>

SignalFrames ==
    { Frame(SubSeq(SignalTape, a, b), {}) :
        a \in 1..Len(SignalTape), b \in 0..Len(SignalTape) }

\* lookback_days arguments: negative, zero, and up to more than some frames hold
LookbackDays == -2..MaxLookback

\* frames and boundaries handed directly to _validate_frequency: a boundary of
\* -1 leaves the discovery segment empty, the last index leaves the
\* validation segment empty
FrequencyFrames == { Frame(Repeat(m, r), {}) : m \in Motifs, r \in TailReps }

\* Scenario A: 1000 bars, RSI below 30 on 50 days 20 bars apart from the day
\* first on, 40 of them followed by a gain of at least 10 percent 60 bars
\* later, and about a tenth of the bars that have a bar 60 later qualifying.
\* The 3 days without a bar 60 later and 7 more (the early Train days, the
\* last Train days or the first Test days) are no wins; the other qualifying
\* bars lie at the start of Train, in the last 60 bars of Train or at the
\* start of Test.
ScenarioFirstDays == {0, 10, 19}
ScenarioPlaces == {"train", "gap", "test"}

ScenarioDays(first) == { first + 20 * k : k \in 0..49 }

ScenarioPlaceStart(place) ==
    CASE place = "train" -> 0 [] place = "gap" -> 560 [] place = "test" -> 700

ScenarioLosers(first, place) ==
    { d \in ScenarioDays(first) :
        \/ d + 60 >= 1000
        \/ d \in ScenarioPlaceStart(place)..ScenarioPlaceStart(place) + 139 }

ScenarioExtraStart(place) ==
    CASE place = "train" -> 0 [] place = "gap" -> 640 [] place = "test" -> 700

ScenarioExtras(first, place) ==
    (ScenarioExtraStart(place)..ScenarioExtraStart(place) + 56) \ ScenarioDays(first)

\* the closes of a chain of bars 60 apart: each step doubles the close, so
\* every qualifying bar has a return of exactly 100 percent
ScenarioCloses ==
    << 100, 200, 400, 800, 1600, 3200, 6400, 12800, 25600, 51200, 102400,
       204800, 409600, 819200, 1638400, 3276800, 6553600, 13107200 >>

ScenarioFrame(first, losers, extras) ==
    LET days == ScenarioDays(first)
        wins == (days \ ScenarioLosers(first, losers)) \cup ScenarioExtras(first, extras)
        rises(i) == Cardinality({ j \in wins : j < i /\ (i - j) % 60 = 0 })
    IN Frame([ k \in 1..1000 |->
                 << ScenarioCloses[rises(k - 1) + 1],
                    IF k - 1 \in days THEN SoloRow("rsi", <<Num(25, 1)>>)
                                     ELSE SoloRow("rsi", <<Num(55, 1)>>) >> ], {})

ScenarioFrames ==
    { ScenarioFrame(first, losers, extras) :
        first \in ScenarioFirstDays, losers \in ScenarioPlaces, extras \in ScenarioPlaces }

\* the RSI pattern of the generator the scenario is about
ScenarioPattern == RsiPatterns(SampleTable)[1]

\* the price and volume columns a frame is expected to carry
OHLCV == {"Open", "High", "Low", "Close", "Volume"}

\* the frame with its index replaced by dates
Redated(frame, dates) ==
    [ k \in 1..Len(frame) |-> [ frame[k] EXCEPT !.Date = dates[k] ] ]

DatesIncreasing(frame) ==
    \A k \in 1..Len(frame) - 1 : frame[k].Date < frame[k + 1].Date

\* malformed inputs: two-bar frames whose dates are out of order or equal,
\* and frames of up to two bars that lack the Volume or the Close column
MalformedInputs ==
    LET frames == { Frame(items, {}) :
                      items \in SeqsUpTo({ <<c, CalmRow>> : c \in TinyCloses }, 2) }
        dated  == frames \cup { Redated(f, d) : f \in { g \in frames : Len(g) = 2 },
                                                d \in { <<2, 1>>, <<1, 1>> } }
        cols   == { OHLCV, OHLCV \ {"Volume"}, OHLCV \ {"Close"} }
    IN { inp \in dated \X cols : ~DatesIncreasing(inp[1]) \/ inp[2] # OHLCV }

\* ---------------------------------------------------------------- the state
VARIABLES
    op,                 \* the entry point that was called
    pc,                 \* position of the call
    df,                 \* the frame handed to the call
    holding_period, min_return,
    all_cases,          \* find_profit_cases: the returned list
    discovery_cases, discovery_end_idx,
    feature_stats, patterns, stats_list, passed_patterns,
    val_patterns,       \* validate_patterns: the patterns argument
    split_idx, baseline_train, baseline_test,
    performances, validated_patterns,
    raised,             \* the exception that ended the call, or "none"
    check_row, check_conditions, check_result, vcheck_result,
    lookback_days,      \* check_signals: the lookback_days argument
    signals,            \* check_signals: the returned list
    columns,            \* the price and volume columns of df
    records,            \* to_dict: the records serialized
    serialized,         \* to_dict: their dicts
    rebuilt,            \* the records built again from the dicts
    lookup_name,        \* get_pattern_by_name: the name argument
    lookup_result,      \* get_pattern_by_name: the returned record or None
    runs,               \* run_full_pipeline: calls made on the current inputs
    first_result        \* run_full_pipeline: what the first call gave

find_vars  == << all_cases, discovery_cases, discovery_end_idx, feature_stats,
                 patterns, stats_list, passed_patterns >>
val_vars   == << val_patterns, split_idx, baseline_train, baseline_test,
                 performances, validated_patterns >>
check_vars == << check_row, check_conditions, check_result, vcheck_result >>
cat_vars   == << records, serialized, rebuilt, lookup_name, lookup_result >>
sig_vars   == << lookback_days, signals, cat_vars >>
run_vars   == << runs, first_result >>
vars == << op, pc, df, holding_period, min_return, find_vars, val_vars,
           raised, check_vars, sig_vars, columns, run_vars >>

Init ==
    /\ op = "none" /\ pc = "idle"
    /\ df = << >> /\ holding_period = 0 /\ min_return = 0
    /\ all_cases = << >> /\ discovery_cases = << >> /\ discovery_end_idx = -1
    /\ feature_stats = << >> /\ patterns = << >> /\ stats_list = << >>
    /\ passed_patterns = << >>
    /\ val_patterns = << >> /\ split_idx = 0
    /\ baseline_train = Zero /\ baseline_test = Zero
    /\ performances = << >> /\ validated_patterns = << >>
    /\ raised = "none"
    /\ check_row = << >> /\ check_conditions = << >>
    /\ check_result = FALSE /\ vcheck_result = FALSE
    /\ lookback_days = 0 /\ signals = << >>
    /\ records = << >> /\ serialized = << >> /\ rebuilt = << >>
    /\ lookup_name = "" /\ lookup_result = None
    /\ columns = OHLCV
    /\ runs = 0 /\ first_result = << >>

\* PatternDefinition.check(row) and ValidatedPattern.check(row) on the same
\* conditions and row
CallCheck ==
    /\ pc = "idle"
    /\ \E row \in CheckRows, conditions \in CheckConditions :
        /\ check_row' = row
        /\ check_conditions' = conditions
        /\ check_result' = PatternCheck([conditions |-> conditions], row)
        /\ vcheck_result' = ValidatedCheck([conditions |-> conditions], row)
    /\ op' = "check" /\ pc' = "returned"
    /\ UNCHANGED << run_vars, df, holding_period, min_return, find_vars, val_vars, raised,
                    sig_vars, columns >>

\* ProfitCaseFinder.find_profit_cases(df, holding_period, min_return)
CallFindProfitCases ==
    /\ pc = "idle"
    /\ \E frame \in TinyFrames, hp \in 1..MaxHolding, mr \in MinReturns :
        /\ df' = frame /\ holding_period' = hp /\ min_return' = mr
        /\ all_cases' = find_profit_cases(frame, hp, mr)
    /\ op' = "find_profit_cases" /\ pc' = "returned"
    /\ UNCHANGED << run_vars, discovery_cases, discovery_end_idx, feature_stats, patterns,
                    stats_list, passed_patterns, val_vars, raised, check_vars, sig_vars, columns >>

\* PatternFinder.__init__ and PatternValidator.__init__: the parameters an
\* instance keeps (the two ratios are IntDiscoveryRatio and IntTrainRatio)
PatternFinder(hp, mr) == [ holding_period |-> hp, min_return |-> mr ]

\* a variant that keeps the default min_return
PatternValidatorDefaultReturn(hp, mr) == [ holding_period |-> hp, min_return |-> 10 ]

PatternValidator(hp, mr) == [ holding_period |-> hp, min_return |-> mr ]

\* run_full_pipeline(df, holding_period, min_return) is entered
CallRunFullPipeline ==
    /\ pc = "idle"
    /\ \E s1 \in HeadSegments, s2 \in TailSegments,
          drop \in DropChoices, hp \in PipelineHoldings, mr \in PipelineMinReturns :
        /\ df' = Frame(s1 \o s2, drop)
        /\ holding_period' = hp
        /\ min_return' = mr
    /\ op' = "run_full_pipeline" /\ pc' = "find_patterns"
    /\ runs' = 1
    /\ UNCHANGED << first_result, find_vars, val_vars, raised, check_vars, sig_vars, columns >>

\* PatternFinder.find_patterns(df), called by run_pattern_discovery
FindPatterns ==
    /\ pc = "find_patterns"
    /\ LET finder == PatternFinder(holding_period, min_return)
           cases == find_profit_cases(df, finder.holding_period, finder.min_return)
           n_cases == Len(cases)
           split == IntDiscoveryRatio(n_cases)
           disc == SubSeq(cases, 1, split)
       IN /\ all_cases' = cases
          /\ discovery_cases' = disc
          /\ IF disc = << >>
             THEN \* discovery_cases[-1] of an empty list
                  /\ raised' = "IndexError" /\ pc' = "raised"
                  /\ UNCHANGED << discovery_end_idx, feature_stats, patterns,
                                  stats_list, passed_patterns >>
             ELSE LET end_idx == disc[Len(disc)].date_idx
                      fstats == analyze_features(df, disc)
                      pats == define_patterns(fstats)
                      stats == validate_frequency_stats(df, pats, end_idx)
                  IN /\ discovery_end_idx' = end_idx
                     /\ feature_stats' = fstats
                     /\ patterns' = pats
                     /\ stats_list' = stats
                     /\ passed_patterns' = validate_frequency_passed(pats, stats)
                     /\ raised' = raised /\ pc' = "discovered"
    /\ UNCHANGED << run_vars, op, df, holding_period, min_return, val_vars, check_vars, sig_vars, columns >>

\* run_full_pipeline: no pattern passed the frequency validation
PipelineReturnsEmpty ==
    /\ pc = "discovered" /\ passed_patterns = << >>
    /\ pc' = "returned"
    /\ UNCHANGED << run_vars, op, df, holding_period, min_return, find_vars, val_vars,
                    raised, check_vars, sig_vars, columns >>

\* a variant whose validator keeps the list it was handed before
PipelineCallsValidatorKept ==
    /\ pc = "discovered" /\ passed_patterns # << >>
    /\ val_patterns' = val_patterns \o passed_patterns
    /\ pc' = "validate"
    /\ UNCHANGED << run_vars, op, df, holding_period, min_return, find_vars, split_idx,
                    baseline_train, baseline_test, performances,
                    validated_patterns, raised, check_vars, sig_vars, columns >>

\* run_full_pipeline hands the frequency-validated patterns to the validator
PipelineCallsValidator ==
    /\ pc = "discovered" /\ passed_patterns # << >>
    /\ val_patterns' = passed_patterns
    /\ pc' = "validate"
    /\ UNCHANGED << run_vars, op, df, holding_period, min_return, find_vars, split_idx,
                    baseline_train, baseline_test, performances,
                    validated_patterns, raised, check_vars, sig_vars, columns >>

\* PatternValidator(holding_period, min_return).validate_patterns(df, patterns)
\* called directly
CallValidatePatterns ==
    /\ pc = "idle"
    /\ \E s1 \in HeadSegments, s2 \in TailSegments, hp \in PipelineHoldings,
          plist \in PatternLists :
        /\ df' = Frame(s1 \o s2, {})
        /\ holding_period' = hp
        /\ val_patterns' = plist
    /\ min_return' = 10
    /\ op' = "validate_patterns" /\ pc' = "validate"
    /\ UNCHANGED << run_vars, find_vars, split_idx, baseline_train, baseline_test,
                    performances, validated_patterns, raised, check_vars, sig_vars, columns >>

\* validate_patterns: df_train = df.iloc[:split_idx] and df_test =
\* df.iloc[split_idx:]
TestPart(frame, split) == Slice(frame, split, Len(frame))

\* a variant whose Train segment runs holding_period bars into Test
TrainPartWithHorizon(frame, split) ==
    Slice(frame, 0, IF split + holding_period < Len(frame)
                    THEN split + holding_period ELSE Len(frame))

TrainPart(frame, split) == Slice(frame, 0, split)

\* PatternValidator.validate_patterns
ValidatePatterns ==
    /\ pc = "validate"
    /\ LET validator == PatternValidator(holding_period, min_return)
           split == IntTrainRatio(Len(df))
           df_train == TrainPart(df, split)
           df_test == TestPart(df, split)
       IN /\ split_idx' = split
          /\ IF df_train = << >> \/ df_test = << >>
             THEN \* df_train.index[0] / df_test.index[0] of an empty index
                  /\ raised' = "IndexError" /\ pc' = "raised"
                  /\ UNCHANGED << baseline_train, baseline_test, performances,
                                  validated_patterns >>
             ELSE LET b_train == calculate_baseline(df_train, validator.holding_period, validator.min_return)
                      b_test == calculate_baseline(df_test, validator.holding_period, validator.min_return)
                      perfs == [ k \in 1..Len(val_patterns) |->
                                   validate_single_pattern(df_train, df_test,
                                       val_patterns[k], b_train, b_test,
                                       validator.holding_period, validator.min_return) ]
                  IN /\ baseline_train' = b_train
                     /\ baseline_test' = b_test
                     /\ performances' = perfs
                     /\ validated_patterns' =
                            SelectFlagged(val_patterns,
                                [k \in 1..Len(perfs) |-> perfs[k].validated])
                     /\ raised' = raised /\ pc' = "returned"
    /\ UNCHANGED << run_vars, op, df, holding_period, min_return, find_vars, val_patterns,
                    check_vars, sig_vars, columns >>

\* PatternFinder._validate_frequency(df, patterns, discovery_end_idx) called
\* directly
CallValidateFrequency ==
    /\ pc = "idle"
    /\ \E frame \in FrequencyFrames, pats \in PatternLists :
       \E end_idx \in -1..Len(frame) - 1 :
          LET stats == validate_frequency_stats(frame, pats, end_idx)
          IN /\ df' = frame /\ patterns' = pats /\ discovery_end_idx' = end_idx
             /\ stats_list' = stats
             /\ passed_patterns' = validate_frequency_passed(pats, stats)
    /\ op' = "validate_frequency" /\ pc' = "returned"
    /\ UNCHANGED << run_vars, holding_period, min_return, all_cases, discovery_cases,
                    feature_stats, val_vars, raised, check_vars, sig_vars, columns >>

\* check_signals(df, lookback_days)
CallCheckSignals ==
    /\ pc = "idle"
    /\ \E frame \in SignalFrames, lb \in LookbackDays :
        /\ df' = frame /\ lookback_days' = lb
        /\ signals' = check_signals(frame, lb)
    /\ op' = "check_signals" /\ pc' = "returned"
    /\ UNCHANGED << run_vars, holding_period, min_return, find_vars, val_vars, raised,
                    check_vars, columns, cat_vars >>

\* _validate_frequency(df, [pattern], 699) on a Scenario A frame
CallScenarioFrequency ==
    /\ pc = "idle"
    /\ \E frame \in ScenarioFrames :
          LET pats == <<ScenarioPattern>>
              stats == validate_frequency_stats(frame, pats, 699)
          IN /\ df' = frame /\ patterns' = pats /\ discovery_end_idx' = 699
             /\ stats_list' = stats
             /\ passed_patterns' = validate_frequency_passed(pats, stats)
    /\ op' = "scenario_frequency" /\ pc' = "returned"
    /\ UNCHANGED << run_vars, holding_period, min_return, all_cases, discovery_cases,
                    feature_stats, val_vars, raised, check_vars, sig_vars, columns >>

\* PatternValidator(60, 10).validate_patterns(df, [pattern]) on a Scenario A
\* frame
CallScenarioValidate ==
    /\ pc = "idle"
    /\ \E frame \in ScenarioFrames : df' = frame
    /\ val_patterns' = <<ScenarioPattern>>
    /\ holding_period' = 60 /\ min_return' = 10
    /\ op' = "scenario_validate" /\ pc' = "validate"
    /\ UNCHANGED << run_vars, find_vars, split_idx, baseline_train, baseline_test,
                    performances, validated_patterns, raised, check_vars, sig_vars, columns >>

\* to_dict() of each record of a stretch of the catalog, and the records
\* built again from the dicts
CallToDict ==
    /\ pc = "idle"
    /\ \E i \in 1..Len(VALIDATED_PATTERNS) + 1 : \E j \in i - 1..Len(VALIDATED_PATTERNS) :
          LET given == SubSeq(VALIDATED_PATTERNS, i, j)
              dicts == [ k \in 1..Len(given) |-> to_dict(given[k]) ]
          IN /\ records' = given
             /\ serialized' = dicts
             /\ rebuilt' = [ k \in 1..Len(dicts) |-> ValidatedPattern(dicts[k]) ]
    /\ op' = "to_dict" /\ pc' = "returned"
    /\ UNCHANGED << run_vars, df, holding_period, min_return, find_vars, val_vars,
                    raised, check_vars, lookback_days, signals, lookup_name,
                    lookup_result, columns >>

\* names asked of get_pattern_by_name: every catalog name, an unknown name,
\* a catalog name in lower case and the empty string
LookupNames == CatalogNameSet \cup { "Unknown_Pattern", "rsi_oversold_35", "" }

\* get_pattern_by_name(name)
CallGetPatternByName ==
    /\ pc = "idle"
    /\ \E name \in LookupNames :
          /\ lookup_name' = name
          /\ lookup_result' = get_pattern_by_name(name)
    /\ op' = "get_pattern_by_name" /\ pc' = "returned"
    /\ UNCHANGED << run_vars, df, holding_period, min_return, find_vars, val_vars,
                    raised, check_vars, lookback_days, signals, records,
                    serialized, rebuilt, columns >>

\* ProfitCaseFinder.find_profit_cases(df, holding_period, min_return) on a
\* malformed frame: df['Close'] raises KeyError when the column is missing,
\* and nothing else about the frame is looked at
CallFindProfitCasesMalformed ==
    /\ pc = "idle"
    /\ \E inp \in MalformedInputs, mr \in MinReturns :
        /\ df' = inp[1] /\ columns' = inp[2]
        /\ holding_period' = 1 /\ min_return' = mr
        /\ IF "Close" \notin inp[2]
           THEN /\ raised' = "KeyError" /\ pc' = "raised"
                /\ UNCHANGED all_cases
           ELSE /\ all_cases' = find_profit_cases(inp[1], 1, mr)
                /\ raised' = raised /\ pc' = "returned"
    /\ op' = "find_profit_cases_malformed"
    /\ UNCHANGED << run_vars, discovery_cases, discovery_end_idx, feature_stats, patterns,
                    stats_list, passed_patterns, val_vars, check_vars, sig_vars >>

\* what a call of run_full_pipeline gives its caller: the exception, or the
\* final pattern list with the statistics of discovery_info
PipelineResult ==
    IF raised # "none"
    THEN [ raised |-> raised ]
    ELSE [ final_patterns |-> IF passed_patterns = << >> THEN << >> ELSE validated_patterns,
           total_cases |-> Len(all_cases),
           discovery_cases |-> Len(discovery_cases),
           patterns_defined |-> Len(patterns),
           patterns_passed |-> Len(passed_patterns),
           pattern_stats |-> stats_list,
           performances |-> IF passed_patterns = << >> THEN << >> ELSE performances ]

\* run_full_pipeline is called once more with the same df, holding_period and
\* min_return; what the first call computed is still in memory
RerunFullPipeline ==
    /\ op = "run_full_pipeline" /\ pc \in {"returned", "raised"} /\ runs = 1
    /\ first_result' = PipelineResult
    /\ runs' = 2
    /\ raised' = "none" /\ pc' = "find_patterns"
    /\ UNCHANGED << op, df, holding_period, min_return, find_vars, val_vars,
                    check_vars, sig_vars, columns >>

Next ==
    \/ CallCheck
    \/ CallFindProfitCases
    \/ CallRunFullPipeline
    \/ FindPatterns
    \/ PipelineReturnsEmpty
    \/ PipelineCallsValidator
    \/ CallValidatePatterns
    \/ ValidatePatterns
    \/ CallCheckSignals
    \/ CallValidateFrequency
    \/ CallFindProfitCasesMalformed
    \/ RerunFullPipeline
    \/ CallScenarioFrequency
    \/ CallScenarioValidate
    \/ CallToDict
    \/ CallGetPatternByName

Spec == Init /\ [][Next]_vars

\* ------------------------------------------------ vocabulary of the claims
\* bar i of frame f has a bar holding_period later in f, and its forward
\* return is at least min_return percent
HasHorizon(f, i) == i + holding_period < Len(f)
Qualifies(f, i) ==
    /\ HasHorizon(f, i)
    /\ 100 * (f[i + 1 + holding_period].Close - f[i + 1].Close)
         >= min_return * f[i + 1].Close

\* every listed indicator is present, defined and inside its inclusive range
Matches(conditions, row) ==
    \A k \in 1..Len(conditions) :
        /\ conditions[k].ind \in DOMAIN row
        /\ row[conditions[k].ind] # NaN
        /\ conditions[k].lo <= row[conditions[k].ind][1]
        /\ row[conditions[k].ind][1] <= conditions[k].hi

\* the indices of f, all or with a forward horizon, whose bar matches
MatchingBars(f, conditions) ==
    { i \in 0..Len(f) - 1 : Matches(conditions, f[i + 1].ind) }
MatchingHorizonBars(f, conditions) ==
    { i \in MatchingBars(f, conditions) : HasHorizon(f, i) }

\* the k-th smallest element of a set of indices
Nth(K, j) == CHOOSE k \in K : Cardinality({ x \in K : x <= k }) = j

\* the segments of the two splits
DiscoverySeg  == SubSeq(df, 1, discovery_end_idx + 1)
ValidationSeg == SubSeq(df, discovery_end_idx + 2, Len(df))
TrainSeg == SubSeq(df, 1, split_idx)
TestSeg  == SubSeq(df, split_idx + 1, Len(df))

\* find_profit_cases has returned its list / the frequency validator has
\* produced its lists / validate_patterns has returned its lists
CasesReturned ==
    \/ op = "find_profit_cases" /\ pc = "returned"
    \/ op = "run_full_pipeline" /\ pc # "find_patterns"
FrequencyDone ==
    op = "run_full_pipeline" /\ pc \in {"discovered", "validate", "returned"}
ValidatorDone ==
    /\ pc = "returned"
    /\ \/ op = "validate_patterns"
       \/ op = "run_full_pipeline" /\ passed_patterns # << >>

\* ------------------------------------------------------------------ claims
\* C1: find_profit_cases returns exactly one ProfitCase for each index i with
\* i + holding_period < len(bars) whose forward return is >= min_return and
\* none for any other index, in strictly ascending index and date order, each
\* with entry_price = close[i], exit_price = close[i + holding_period] and
\* holding_days = holding_period.
C1_ProfitCases ==
    CasesReturned =>
        LET Q == { i \in 0..Len(df) - 1 : Qualifies(df, i) }
        IN /\ Len(all_cases) = Cardinality(Q)
           /\ { all_cases[k].date_idx : k \in 1..Len(all_cases) } = Q
           /\ \A k \in 1..Len(all_cases) - 1 :
                /\ all_cases[k].date_idx < all_cases[k + 1].date_idx
                /\ all_cases[k].date < all_cases[k + 1].date
           /\ \A k \in 1..Len(all_cases) :
                /\ all_cases[k].date = df[all_cases[k].date_idx + 1].Date
                /\ all_cases[k].entry_price = df[all_cases[k].date_idx + 1].Close
                /\ all_cases[k].exit_price =
                       df[all_cases[k].date_idx + 1 + holding_period].Close
                /\ all_cases[k].holding_days = holding_period

\* a direct call that returned two cases or more, one of them with a return
\* of exactly min_return, and left out a bar that has a horizon
C1_Witness ==
    /\ op = "find_profit_cases" /\ pc = "returned"
    /\ Len(all_cases) >= 2
    /\ \E k \in 1..Len(all_cases) :
          100 * (all_cases[k].exit_price - all_cases[k].entry_price)
             = min_return * all_cases[k].entry_price
    /\ \E i \in 0..Len(df) - 1 : HasHorizon(df, i) /\ ~Qualifies(df, i)

\* C2: a bar matches a pattern iff every indicator listed in the conditions
\* is present and defined on the bar with min <= v <= max; a missing or NaN
\* indicator is a non-match; PatternDefinition.check and ValidatedPattern.check
\* give the same result for every bar and every conditions mapping.
C2_CheckIsRangeTest ==
    (op = "check" /\ pc = "returned") =>
        /\ check_result = Matches(check_conditions, check_row)
        /\ vcheck_result = check_result

\* a match on two conditions with one value on the upper bound of its range
C2_Witness ==
    /\ op = "check" /\ pc = "returned"
    /\ check_result /\ vcheck_result
    /\ Len(check_conditions) = 2
    /\ \E k \in 1..2 :
          check_row[check_conditions[k].ind][1] = check_conditions[k].hi

\* C3: a pattern is profitability-validated iff Train occurrences >= 20, Test
\* occurrences >= 10, Train win rate > Train baseline + 0.05, Test win rate >
\* Test baseline + 0.05, Train lift >= 1.2 and Test lift >= 1.2; the first
\* list validate_patterns returns is exactly the input patterns for which
\* this holds, in input order.
SixConditions(p) ==
    /\ p.train_pattern_days >= 20
    /\ p.test_pattern_days >= 10
    /\ 20 * p.train_win_rate.n * baseline_train.d
         > (20 * baseline_train.n + baseline_train.d) * p.train_win_rate.d
    /\ 20 * p.test_win_rate.n * baseline_test.d
         > (20 * baseline_test.n + baseline_test.d) * p.test_win_rate.d
    /\ 5 * p.lift_train.n >= 6 * p.lift_train.d
    /\ 5 * p.lift_test.n >= 6 * p.lift_test.d

FrequencyCriteria(pattern) ==
    LET dc == Cardinality(MatchingBars(DiscoverySeg, pattern.conditions))
        vc == Cardinality(MatchingBars(ValidationSeg, pattern.conditions))
    IN /\ dc >= 10
       /\ vc >= 5
       /\ Len(ValidationSeg) > 0
       /\ 10 * vc * Len(DiscoverySeg) >= 3 * dc * Len(ValidationSeg)

C4_FrequencyPass ==
    FrequencyDone =>
        LET K == { k \in 1..Len(patterns) : FrequencyCriteria(patterns[k]) }
        IN /\ Len(stats_list) = Len(patterns)
           /\ \A k \in 1..Len(patterns) :
                /\ stats_list[k].name = patterns[k].name
                /\ stats_list[k].passed <=> FrequencyCriteria(patterns[k])
                /\ stats_list[k].discovery_count < 10 => ~stats_list[k].passed
           /\ Len(passed_patterns) = Cardinality(K)
           /\ \A j \in 1..Len(passed_patterns) :
                passed_patterns[j] = patterns[Nth(K, j)]

\* a pattern fails on the discovery count alone
C4_Witness ==
    /\ FrequencyDone
    /\ \E k \in 1..Len(stats_list) :
          /\ stats_list[k].discovery_count < 10
          /\ stats_list[k].discovery_count > 0
          /\ stats_list[k].validation_count >= 5
          /\ 10 * stats_list[k].frequency_ratio.n >= 3 * stats_list[k].frequency_ratio.d

\* C5 as stated: in every segment (discovery, validation, Train, Test) the
\* occurrence count is taken only over bars with a forward horizon inside the
\* segment: the bars in the final holding_period rows of a segment are never
\* counted, by the frequency validator as well as by the profitability
\* validator.
C5_AllCountsSkipSegmentEnd ==
    /\ FrequencyDone =>
         \A k \in 1..Len(stats_list) :
            /\ stats_list[k].discovery_count
                 = Cardinality(MatchingHorizonBars(DiscoverySeg, patterns[k].conditions))
            /\ stats_list[k].validation_count
                 = Cardinality(MatchingHorizonBars(ValidationSeg, patterns[k].conditions))
    /\ ValidatorDone =>
         \A k \in 1..Len(performances) :
            /\ performances[k].train_pattern_days
                 = Cardinality(MatchingHorizonBars(TrainSeg, val_patterns[k].conditions))
            /\ performances[k].test_pattern_days
                 = Cardinality(MatchingHorizonBars(TestSeg, val_patterns[k].conditions))

\* C5 amended: the profitability validator counts, in Train and in Test, only
\* the matching bars with a forward horizon inside the segment (never a bar in
\* the final holding_period rows); the frequency validator counts every
\* matching bar of the discovery and of the validation segment, the final
\* holding_period rows included.
C5_CountsPerValidator ==
    /\ FrequencyDone =>
         \A k \in 1..Len(stats_list) :
            /\ stats_list[k].discovery_count
                 = Cardinality(MatchingBars(DiscoverySeg, patterns[k].conditions))
            /\ stats_list[k].validation_count
                 = Cardinality(MatchingBars(ValidationSeg, patterns[k].conditions))
    /\ ValidatorDone =>
         \A k \in 1..Len(performances) :
            /\ performances[k].train_pattern_days
                 = Cardinality(MatchingHorizonBars(TrainSeg, val_patterns[k].conditions))
            /\ performances[k].test_pattern_days
                 = Cardinality(MatchingHorizonBars(TestSeg, val_patterns[k].conditions))

\* a pipeline run in which a pattern matches a bar in the final rows of the
\* discovery segment, of the Train segment and of the Test segment
C5_Witness ==
    /\ ValidatorDone /\ op = "run_full_pipeline"
    /\ \E k \in 1..Len(stats_list) :
          stats_list[k].discovery_count
             > Cardinality(MatchingHorizonBars(DiscoverySeg, patterns[k].conditions))
    /\ \E k \in 1..Len(performances) :
          /\ performances[k].train_pattern_days
               < Cardinality(MatchingBars(TrainSeg, val_patterns[k].conditions))
          /\ performances[k].test_pattern_days
               < Cardinality(MatchingBars(TestSeg, val_patterns[k].conditions))

\* C6: every PatternDefinition the generator emits has min <= max for each of
\* its indicators and references only indicators that are present in the
\* feature-statistics table it was given; a pattern that references an
\* indicator absent from the table is not emitted.
C6_PatternsWithinTable ==
    FrequencyDone =>
        \A k \in 1..Len(patterns) :
            \A c \in 1..Len(patterns[k].conditions) :
                /\ patterns[k].conditions[c].lo <= patterns[k].conditions[c].hi
                /\ patterns[k].conditions[c].ind \in DOMAIN feature_stats

\* C7: on too little data (fewer bars than holding_period, no profit case, an
\* empty discovery subset, an empty Test segment) the full pipeline run does
\* not raise: it completes and returns the patterns that are valid.
C7_PipelineNeverRaises ==
    op = "run_full_pipeline" => raised = "none" /\ pc # "raised"

\* C8: when the baseline of a segment is 0 (no profit-qualifying day in the
\* segment, or no day with a forward horizon) the baseline and every lift of
\* that segment are 0 and no pattern is validated; a pattern with zero
\* occurrences in a segment has win rate 0 there.
NoQualifyingDay(seg) == \A i \in 0..Len(seg) - 1 : ~Qualifies(seg, i)

C8_ZeroBaseline ==
    ValidatorDone =>
        /\ NoQualifyingDay(TrainSeg) => baseline_train = Zero
        /\ NoQualifyingDay(TestSeg) => baseline_test = Zero
        /\ \A k \in 1..Len(performances) :
            LET p == performances[k] IN
            /\ baseline_train.n = 0 => p.lift_train = Zero /\ ~p.validated
            /\ baseline_test.n = 0 => p.lift_test = Zero /\ ~p.validated
            /\ p.train_pattern_days = 0 => p.train_win_rate = Zero
            /\ p.test_pattern_days = 0 => p.test_win_rate = Zero

\* the Test baseline is 0 while a pattern has its 20 Train occurrences, a
\* Train lift of 1.2 or more and occurrences in Test; another pattern has no
\* occurrence at all in Test
C8_Witness ==
    /\ ValidatorDone
    /\ baseline_test = Zero /\ baseline_train # Zero
    /\ \E k \in 1..Len(performances) :
          /\ performances[k].train_pattern_days >= 20
          /\ 5 * performances[k].lift_train.n >= 6 * performances[k].lift_train.d
          /\ performances[k].test_pattern_days > 0
    /\ \E k \in 1..Len(performances) : performances[k].test_pattern_days = 0

\* C9: the baseline of a segment is the number of bars of the segment that
\* have a forward horizon inside the segment and a forward return >=
\* min_return, divided by (segment length - holding_period), with the
\* holding_period and min_return of the pattern evaluation; Train and Test
\* each have their own.
QualifyingDays(seg) == Cardinality({ i \in 0..Len(seg) - 1 : Qualifies(seg, i) })

C9_Baseline ==
    ValidatorDone =>
        /\ Len(TrainSeg) > holding_period =>
             baseline_train.n * (Len(TrainSeg) - holding_period)
                = QualifyingDays(TrainSeg) * baseline_train.d
        /\ Len(TestSeg) > holding_period =>
             baseline_test.n * (Len(TestSeg) - holding_period)
                = QualifyingDays(TestSeg) * baseline_test.d

\* the two segments have different baselines, neither of them 0
C9_Witness ==
    /\ ValidatorDone
    /\ baseline_train # baseline_test
    /\ baseline_train.n > 0 /\ baseline_test.n > 0

\* C10: for every validated pattern the reported Test lift is test_win_rate
\* divided by the Test baseline and the reported Train lift is train_win_rate
\* divided by the Train baseline, both baselines being those of the pattern's
\* performance record.  The record holds one baseline, baseline_win_rate.
C10_LiftFromRecord ==
    ValidatorDone =>
        \A k \in 1..Len(performances) :
            LET p == performances[k] IN
            p.validated =>
                /\ p.baseline_win_rate.n > 0
                /\ p.lift_train.n * p.baseline_win_rate.n * p.train_win_rate.d
                     = p.train_win_rate.n * p.baseline_win_rate.d * p.lift_train.d
                /\ p.lift_test.n * p.baseline_win_rate.n * p.test_win_rate.d
                     = p.test_win_rate.n * p.baseline_win_rate.d * p.lift_test.d

\* C11: a pattern whose Test win rate equals the Test baseline (Test lift 1.0)
\* is never in the validated set, whatever its occurrences, its Train win rate
\* and its Train lift.
C11_TestLiftOneExcluded ==
    ValidatorDone =>
        \A k \in 1..Len(performances) :
            performances[k].test_win_rate = baseline_test
                => /\ ~performances[k].validated
                   /\ val_patterns[k] \notin
                        { validated_patterns[j] : j \in 1..Len(validated_patterns) }

\* a pattern with 20 Train and 10 Test occurrences, a Train win rate above the
\* Train baseline + 0.05 and a Train lift of 1.2 or more, whose Test win rate
\* is the non-zero Test baseline
C11_Witness ==
    /\ ValidatorDone
    /\ baseline_test.n > 0
    /\ \E k \in 1..Len(performances) :
          LET p == performances[k] IN
          /\ p.test_win_rate = baseline_test
          /\ p.lift_test = [n |-> 1, d |-> 1]
          /\ p.train_pattern_days >= MinTrainDays
          /\ p.test_pattern_days >= MinTestDays
          /\ RatLt(RatAdd(baseline_train, WinRateMargin), p.train_win_rate)
          /\ RatLe(MinLift, p.lift_train)

\* C12: check_signals examines exactly the last lookback_days bars, the last
\* bar included, and returns exactly one signal for each (bar, catalog
\* pattern) pair of that window where the bar matches the pattern, and no
\* other signal; a bar matching several patterns yields several signals.
SignalsReturned == op = "check_signals" /\ pc = "returned"

Window == { i \in 0..Len(df) - 1 : i >= Len(df) - lookback_days }

CatalogNames == { VALIDATED_PATTERNS[k].name : k \in 1..Len(VALIDATED_PATTERNS) }

CatalogPattern(name) ==
    VALIDATED_PATTERNS[CHOOSE k \in 1..Len(VALIDATED_PATTERNS) :
                           VALIDATED_PATTERNS[k].name = name]

MatchingPairs ==
    { q \in Window \X CatalogNames :
        Matches(CatalogPattern(q[2]).conditions, At(df, q[1]).ind) }

SignalsFor(q) ==
    { k \in 1..Len(signals) :
        /\ signals[k].pattern = q[2]
        /\ signals[k].days_ago = Len(df) - 1 - q[1] }

C12_SignalsAreWindowMatches ==
    SignalsReturned =>
        /\ \A q \in MatchingPairs : Cardinality(SignalsFor(q)) = 1
        /\ \A k \in 1..Len(signals) : \E q \in MatchingPairs : k \in SignalsFor(q)
        /\ Len(signals) = Cardinality(MatchingPairs)
        /\ \A k \in 1..Len(signals) :
              LET i == Len(df) - 1 - signals[k].days_ago IN
              /\ signals[k].date = DateAt(df, i)
              /\ signals[k].price = CloseAt(df, i)

\* lookback_days = 7 on a longer frame whose last 7 bars each match one
\* pattern, a different one each, and whose eighth bar from the end matches
\* too: exactly 7 signals come back
C12_Witness ==
    /\ SignalsReturned
    /\ lookback_days = 7 /\ Len(df) > 7
    /\ \A i \in Window : Cardinality({ q \in MatchingPairs : q[1] = i }) = 1
    /\ Cardinality({ q[2] : q \in MatchingPairs }) = 7
    /\ \E name \in CatalogNames :
          Matches(CatalogPattern(name).conditions, At(df, Len(df) - 8).ind)
    /\ Len(signals) = 7

\* C13: the list returned by check_signals is ordered by days_ago ascending,
\* and signals of equal days_ago by test_win_rate descending.
C13_SignalsOrdered ==
    SignalsReturned =>
        \A k \in 1..Len(signals) - 1 :
            \/ signals[k].days_ago < signals[k + 1].days_ago
            \/ /\ signals[k].days_ago = signals[k + 1].days_ago
               /\ signals[k].test_win_rate >= signals[k + 1].test_win_rate

\* signals of three different days, two of them on the same day with
\* different win rates
C13_Witness ==
    /\ SignalsReturned
    /\ Cardinality({ signals[k].days_ago : k \in 1..Len(signals) }) >= 3
    /\ \E k \in 1..Len(signals) - 1 :
          /\ signals[k].days_ago = signals[k + 1].days_ago
          /\ signals[k].test_win_rate > signals[k + 1].test_win_rate

\* C14: the frequency split puts the bars with index <= discovery_end_idx in
\* the discovery segment and all later bars in the validation segment: every
\* bar is in exactly one of the two and every discovery bar precedes every
\* validation bar; discovery_end_idx is the index of the last profit case
\* among the first int(n_cases * discovery_ratio) profit cases.
FrequencyReturned ==
    FrequencyDone \/ (op = "validate_frequency" /\ pc = "returned")

DiscoveryBars  == { i \in 0..Len(df) - 1 : i <= discovery_end_idx }
ValidationBars == { i \in 0..Len(df) - 1 : i > discovery_end_idx }

MatchesIn(bars, pattern) ==
    Cardinality({ i \in bars : Matches(pattern.conditions, At(df, i).ind) })

C14_FrequencySplit ==
    /\ FrequencyReturned =>
         /\ DiscoveryBars \cup ValidationBars = 0..Len(df) - 1
         /\ DiscoveryBars \cap ValidationBars = {}
         /\ \A i \in DiscoveryBars : \A j \in ValidationBars :
               DateAt(df, i) < DateAt(df, j)
         /\ \A k \in 1..Len(stats_list) :
               /\ stats_list[k].discovery_total_days = Cardinality(DiscoveryBars)
               /\ stats_list[k].validation_total_days = Cardinality(ValidationBars)
               /\ stats_list[k].discovery_count = MatchesIn(DiscoveryBars, patterns[k])
               /\ stats_list[k].validation_count = MatchesIn(ValidationBars, patterns[k])
    /\ FrequencyDone =>
         LET n == (67 * Len(all_cases)) \div 100 IN
         /\ n >= 1
         /\ discovery_cases = SubSeq(all_cases, 1, n)
         /\ discovery_end_idx = all_cases[n].date_idx

\* a pipeline run where some profit cases lie after the boundary and a pattern
\* occurs on both sides of it
C14_Witness ==
    /\ FrequencyDone
    /\ Len(discovery_cases) >= 2 /\ Len(discovery_cases) < Len(all_cases)
    /\ \E k \in 1..Len(stats_list) :
          /\ stats_list[k].discovery_count > 0
          /\ stats_list[k].validation_count > 0
          /\ stats_list[k].discovery_count < stats_list[k].discovery_total_days

\* C15 as stated: the occurrence rate of a segment is matches / segment
\* length, frequency_ratio is validation rate / discovery rate, and is 0 when
\* the discovery rate is 0 (a rate is 0 for an empty segment).
RateIs(rate, scale, matches, bars) ==
    IF bars = {} THEN rate = Zero
    ELSE rate.n * Cardinality(bars) = scale * matches * rate.d

RatioIs(ratio, pattern) ==
    LET dc == MatchesIn(DiscoveryBars, pattern)
        vc == MatchesIn(ValidationBars, pattern)
    IN IF dc = 0 \/ ValidationBars = {} THEN ratio = Zero
       ELSE ratio.n * dc * Cardinality(ValidationBars)
              = vc * Cardinality(DiscoveryBars) * ratio.d

C15_RateIsFraction ==
    FrequencyReturned =>
        \A k \in 1..Len(stats_list) :
            /\ RateIs(stats_list[k].discovery_frequency, 1,
                      MatchesIn(DiscoveryBars, patterns[k]), DiscoveryBars)
            /\ RateIs(stats_list[k].validation_frequency, 1,
                      MatchesIn(ValidationBars, patterns[k]), ValidationBars)
            /\ RatioIs(stats_list[k].frequency_ratio, patterns[k])

\* C15 as the code has it: the occurrence rate of a segment is a percentage,
\* 100 * matches / segment length (0 for an empty segment), and
\* frequency_ratio is validation rate / discovery rate, 0 when the discovery
\* rate is 0.
C15_RateIsPercentage ==
    FrequencyReturned =>
        \A k \in 1..Len(stats_list) :
            /\ RateIs(stats_list[k].discovery_frequency, 100,
                      MatchesIn(DiscoveryBars, patterns[k]), DiscoveryBars)
            /\ RateIs(stats_list[k].validation_frequency, 100,
                      MatchesIn(ValidationBars, patterns[k]), ValidationBars)
            /\ RatioIs(stats_list[k].frequency_ratio, patterns[k])

\* a pattern with a non-zero ratio that is not a whole number, next to a
\* pattern that never occurs in the discovery segment
C15_Witness ==
    /\ FrequencyReturned
    /\ \E k \in 1..Len(stats_list) :
          /\ stats_list[k].frequency_ratio.n > 0
          /\ stats_list[k].frequency_ratio.d > 1
          /\ stats_list[k].discovery_frequency.d > 1
    /\ \E k \in 1..Len(stats_list) :
          /\ stats_list[k].discovery_count = 0
          /\ stats_list[k].validation_count > 0
          /\ stats_list[k].frequency_ratio = Zero

\* C16: validate_patterns splits the bars into Train = the first
\* int(len(bars) * train_ratio) bars and Test = all remaining bars: every bar
\* is in exactly one segment, every Train bar is earlier than every Test bar,
\* and nothing is reordered.
TrainBars == { i \in 0..Len(df) - 1 : i < (7 * Len(df)) \div 10 }
TestBars  == (0..Len(df) - 1) \ TrainBars

\* the bars of a segment (a set of indices) that have their horizon inside the
\* segment, match the pattern and, for Wins, reach min_return
OccurrencesIn(bars, pattern) ==
    { i \in bars : /\ i + holding_period \in bars
                   /\ Matches(pattern.conditions, At(df, i).ind) }

WinsIn(bars, pattern) ==
    { i \in OccurrencesIn(bars, pattern) :
        100 * (CloseAt(df, i + holding_period) - CloseAt(df, i))
            >= min_return * CloseAt(df, i) }

C16_TrainTestSplit ==
    ValidatorDone =>
        /\ Cardinality(TrainBars) = split_idx
        /\ TrainBars = 0..split_idx - 1
        /\ TestBars = split_idx..Len(df) - 1
        /\ \A i \in TrainBars : \A j \in TestBars : DateAt(df, i) < DateAt(df, j)
        /\ \A k \in 1..Len(performances) :
              LET p == performances[k] IN
              /\ p.train_pattern_days = Cardinality(OccurrencesIn(TrainBars, val_patterns[k]))
              /\ p.train_profit_days = Cardinality(WinsIn(TrainBars, val_patterns[k]))
              /\ p.test_pattern_days = Cardinality(OccurrencesIn(TestBars, val_patterns[k]))
              /\ p.test_profit_days = Cardinality(WinsIn(TestBars, val_patterns[k]))

\* a frame whose length times 0.7 is not whole, with a pattern that occurs
\* and wins in both segments, and more often than it wins in Train
C16_Witness ==
    /\ ValidatorDone
    /\ (7 * Len(df)) % 10 >= 5
    /\ \E k \in 1..Len(performances) :
          /\ performances[k].train_profit_days > 0
          /\ performances[k].train_profit_days < performances[k].train_pattern_days
          /\ performances[k].test_profit_days > 0

\* C17: for fixed bars and holding_period, raising min_return never increases
\* the number of profit cases: the indices returned for a larger min_return
\* are a subset of those returned for a smaller one.
CaseIndices(cases) == { cases[k].date_idx : k \in 1..Len(cases) }

C17_ThresholdMonotone ==
    (op = "find_profit_cases" /\ pc = "returned") =>
        \A higher \in MinReturns :
            higher >= min_return =>
                LET more == find_profit_cases(df, holding_period, higher) IN
                /\ CaseIndices(more) \subseteq CaseIndices(all_cases)
                /\ Len(more) <= Len(all_cases)

\* a frame where min_return 5 returns more cases than min_return 10, which
\* still returns one
C17_Witness ==
    /\ op = "find_profit_cases" /\ pc = "returned"
    /\ min_return = 5
    /\ Len(find_profit_cases(df, holding_period, 10)) > 0
    /\ Len(find_profit_cases(df, holding_period, 10)) < Len(all_cases)

\* C18: for fixed bars, patterns and split, tightening any single threshold
\* of the frequency stage (minimum discovery count, minimum validation count,
\* minimum frequency ratio) or of the profitability stage (minimum Train and
\* Test occurrences, win-rate margin, minimum lift) never adds a pattern to
\* the validated set.
TighterFrequencyThresholds ==
    { [FrequencyThresholds EXCEPT !.min_discovery = v] : v \in {11, 13, 25} }
    \cup { [FrequencyThresholds EXCEPT !.min_validation = v] : v \in {6, 12} }
    \cup { [FrequencyThresholds EXCEPT !.min_ratio = v] :
             v \in { [n |-> 1, d |-> 2], [n |-> 1, d |-> 1] } }

TighterValidationThresholds ==
    { [ValidationThresholds EXCEPT !.min_train_days = v] : v \in {21, 25} }
    \cup { [ValidationThresholds EXCEPT !.min_test_days = v] : v \in {11, 12} }
    \cup { [ValidationThresholds EXCEPT !.margin = v] :
             v \in { [n |-> 1, d |-> 10], [n |-> 1, d |-> 2] } }
    \cup { [ValidationThresholds EXCEPT !.min_lift = v] :
             v \in { [n |-> 3, d |-> 2], [n |-> 2, d |-> 1] } }

PassedUnder(k, th) ==
    FrequencyPassedWith(stats_list[k].discovery_count, stats_list[k].validation_count,
                        stats_list[k].frequency_ratio, th)

ValidatedUnder(k, th) ==
    LET p == performances[k] IN
    ValidatedWith([pattern_days |-> p.train_pattern_days, win_rate |-> p.train_win_rate],
                  [pattern_days |-> p.test_pattern_days, win_rate |-> p.test_win_rate],
                  baseline_train, baseline_test, p.lift_train, p.lift_test, th)

C18_TighterNeverAdds ==
    /\ FrequencyReturned =>
         \A k \in 1..Len(stats_list) :
            /\ stats_list[k].passed <=> PassedUnder(k, FrequencyThresholds)
            /\ \A th \in TighterFrequencyThresholds :
                  PassedUnder(k, th) => stats_list[k].passed
    /\ ValidatorDone =>
         \A k \in 1..Len(performances) :
            /\ performances[k].validated <=> ValidatedUnder(k, ValidationThresholds)
            /\ \A th \in TighterValidationThresholds :
                  ValidatedUnder(k, th) => performances[k].validated

\* a pipeline run with validated patterns in which a tighter frequency
\* threshold drops a pattern that passed and keeps another, and a tighter
\* lift drops a validated pattern
C18_Witness ==
    /\ op = "run_full_pipeline" /\ ValidatorDone
    /\ \E th \in TighterFrequencyThresholds :
          /\ \E k \in 1..Len(stats_list) : stats_list[k].passed /\ ~PassedUnder(k, th)
          /\ \E k \in 1..Len(stats_list) : stats_list[k].passed /\ PassedUnder(k, th)
    /\ \E th \in TighterValidationThresholds :
          \E k \in 1..Len(performances) :
              performances[k].validated /\ ~ValidatedUnder(k, th)

\* C19: whether bar i counts as an occurrence of a pattern depends only on
\* the indicator values of bar i: changing any indicator or price value at an
\* index greater than i, or any forward return, leaves the match decision at
\* i and at every j < i unchanged, in the frequency validator, the
\* profitability validator and check_signals.
Overwritten(f, i, close, row) ==
    [ k \in 1..Len(f) |->
        IF k - 1 <= i THEN f[k]
        ELSE [ Date  |-> f[k].Date,
               Close |-> close,
               ind   |-> [ c \in DOMAIN f[k].ind |-> row[c] ] ] ]

\* the frames that agree with df up to bar i and differ after it
LaterChanged(i) ==
    { Overwritten(df, i, 100, DipRow), Overwritten(df, i, 121, CalmRow) }

UpTo(hits, i) == { hits[k] : k \in { x \in 1..Len(hits) : hits[x] <= i } }

SignalsUpTo(sigs, f, i) ==
    { << sigs[k].days_ago, sigs[k].pattern >> :
        k \in { x \in 1..Len(sigs) : Len(f) - 1 - sigs[x].days_ago <= i } }

C19_NoLookAhead ==
    /\ (op = "validate_frequency" /\ pc = "returned") =>
         \A k \in 1..Len(patterns) : \A n \in { Len(df), Len(df) - 1 } :
            LET hits == pattern_hits(df, patterns[k], n) IN
            \A i \in 0..Len(df) - 1 :
               LET before == UpTo(hits, i) IN
               /\ before = { j \in 0..i : j < n /\ Matches(patterns[k].conditions, At(df, j).ind) }
               /\ \A alt \in LaterChanged(i) :
                     UpTo(pattern_hits(alt, patterns[k], n), i) = before
    /\ SignalsReturned =>
         \A i \in 0..Len(df) - 1 : \A alt \in LaterChanged(i) :
            SignalsUpTo(check_signals(alt, lookback_days), alt, i)
               = SignalsUpTo(signals, df, i)

\* a pattern occurs at a bar i, and overwriting the bars after i changes the
\* number of its occurrences in the whole frame
C19_Witness ==
    /\ op = "validate_frequency" /\ pc = "returned"
    /\ \E k \in 1..Len(patterns) : \E i \in 0..Len(df) - 2 :
          /\ PatternCheck(patterns[k], At(df, i).ind)
          /\ patterns[k].conditions # << >>
          /\ \E alt \in LaterChanged(i) :
                Len(pattern_hits(alt, patterns[k], Len(df)))
                   # Len(pattern_hits(df, patterns[k], Len(df)))

\* C20: when the input frame is malformed (dates not strictly increasing,
\* duplicate dates, or a required OHLCV column missing) the core refuses to
\* proceed and reports a failure instead of returning statistics computed from
\* the malformed frame.
Malformed == ~DatesIncreasing(df) \/ columns # OHLCV

C20_MalformedRefused ==
    (op = "find_profit_cases_malformed" /\ Malformed) =>
        /\ pc = "raised"
        /\ raised # "none"

\* C21: the pipeline filters strictly downward: there is one PatternStats per
\* generated pattern, the frequency pass list is exactly the generated
\* patterns whose PatternStats has passed = true, in generation order; the
\* profitability validator receives that list and produces one
\* PatternPerformance per pattern of it; the validated list is a sub-list of
\* the pass list; and when nothing passes the frequency stage the pipeline
\* returns without running the profitability stage.
PassedIndices == { k \in 1..Len(stats_list) : stats_list[k].passed }
ValidatedIndices == { k \in 1..Len(performances) : performances[k].validated }

C21_FiltersDownward ==
    /\ FrequencyDone =>
         /\ Len(stats_list) = Len(patterns)
         /\ \A k \in 1..Len(patterns) : stats_list[k].name = patterns[k].name
         /\ Len(passed_patterns) = Cardinality(PassedIndices)
         /\ \A j \in 1..Len(passed_patterns) :
               passed_patterns[j] = patterns[Nth(PassedIndices, j)]
    /\ (op = "run_full_pipeline" /\ pc = "validate") => val_patterns = passed_patterns
    /\ (op = "run_full_pipeline" /\ ValidatorDone) =>
         /\ val_patterns = passed_patterns
         /\ Len(performances) = Len(passed_patterns)
         /\ \A k \in 1..Len(performances) : performances[k].name = passed_patterns[k].name
         /\ Len(validated_patterns) = Cardinality(ValidatedIndices)
         /\ \A j \in 1..Len(validated_patterns) :
               validated_patterns[j] = passed_patterns[Nth(ValidatedIndices, j)]
    /\ (op = "run_full_pipeline" /\ pc = "returned" /\ passed_patterns = << >>) =>
         /\ performances = << >> /\ validated_patterns = << >>
         /\ val_patterns = << >>

\* a finished run in which some generated patterns fail the frequency stage,
\* some of the others fail the profitability stage and some are validated
C21_Witness ==
    /\ op = "run_full_pipeline" /\ ValidatorDone
    /\ Len(passed_patterns) < Len(patterns)
    /\ validated_patterns # << >>
    /\ Len(validated_patterns) < Len(passed_patterns)

\* C22: within one run of run_full_pipeline one holding_period and one
\* min_return, the arguments of the call, decide the profit cases, every
\* pattern's occurrences and wins in Train and in Test, and both baselines.
C22_SameParameters ==
    op = "run_full_pipeline" =>
        /\ holding_period \in PipelineHoldings /\ min_return \in PipelineMinReturns
        /\ CasesReturned =>
             /\ CaseIndices(all_cases) = { i \in 0..Len(df) - 1 : Qualifies(df, i) }
             /\ \A k \in 1..Len(all_cases) : all_cases[k].holding_days = holding_period
        /\ ValidatorDone =>
             /\ \A k \in 1..Len(performances) :
                   LET p == performances[k] IN
                   /\ p.train_pattern_days = Cardinality(OccurrencesIn(TrainBars, val_patterns[k]))
                   /\ p.train_profit_days = Cardinality(WinsIn(TrainBars, val_patterns[k]))
                   /\ p.test_pattern_days = Cardinality(OccurrencesIn(TestBars, val_patterns[k]))
                   /\ p.test_profit_days = Cardinality(WinsIn(TestBars, val_patterns[k]))
             /\ Len(TrainSeg) > holding_period =>
                  baseline_train.n * (Len(TrainSeg) - holding_period)
                     = QualifyingDays(TrainSeg) * baseline_train.d
             /\ Len(TestSeg) > holding_period =>
                  baseline_test.n * (Len(TestSeg) - holding_period)
                     = QualifyingDays(TestSeg) * baseline_test.d

\* a finished run with holding_period 2 and min_return 0, values other than
\* the defaults, in which a flat stretch counts as a case and as a win
C22_Witness ==
    /\ op = "run_full_pipeline" /\ ValidatorDone
    /\ holding_period = 2 /\ min_return = 0
    /\ \E k \in 1..Len(all_cases) : all_cases[k].return_pct = Zero
    /\ baseline_train.n > 0 /\ baseline_test.n > 0
    /\ \E k \in 1..Len(performances) :
          /\ performances[k].train_profit_days > 0
          /\ performances[k].test_profit_days > 0

\* C23: a second run of the full pipeline on the same bars with the same
\* holding_period and min_return gives what the first run gave: the same
\* exception, or the same final patterns in the same order with the same
\* frequency and profitability statistics.
SecondRunEnded ==
    op = "run_full_pipeline" /\ runs = 2 /\ pc \in {"returned", "raised"}

IsOneOf(pattern, list) == \E k \in 1..Len(list) : list[k] = pattern

PatternsAsGiven ==
    /\ FrequencyDone => patterns = define_patterns(feature_stats)
    /\ FrequencyReturned =>
          \A j \in 1..Len(passed_patterns) : IsOneOf(passed_patterns[j], patterns)
    /\ ValidatorDone =>
          \A j \in 1..Len(validated_patterns) : IsOneOf(validated_patterns[j], val_patterns)
    /\ SignalsReturned =>
          \A j \in 1..Len(signals) :
              /\ signals[j].pattern \in CatalogNames
              /\ signals[j].category = CatalogPattern(signals[j].pattern).category
              /\ signals[j].price = CloseAt(df, Len(df) - 1 - signals[j].days_ago)
              /\ signals[j].date = DateAt(df, Len(df) - 1 - signals[j].days_ago)

StepKeepsInputs ==
    pc # "idle" =>
        /\ df' = df /\ columns' = columns
        /\ pc \in {"discovered", "validate"} =>
              patterns' = patterns /\ passed_patterns' = passed_patterns
        /\ pc = "validate" => val_patterns' = val_patterns

RoundTripKeepsFields ==
    (op = "to_dict" /\ pc = "returned") =>
        /\ Len(serialized) = Len(records) /\ rebuilt = records
        /\ \A k \in 1..Len(records) :
              /\ DOMAIN serialized[k] = DOMAIN records[k]
              /\ \A f \in DOMAIN records[k] : serialized[k][f] = records[k][f]

PerSegmentNumbers ==
    { "train_occurrences", "train_win_rate", "train_avg_return", "train_lift",
      "test_occurrences", "test_win_rate", "test_avg_return", "test_lift" }

C25_RoundTripEightNumbers ==
    /\ RoundTripKeepsFields
    /\ (op = "to_dict" /\ pc = "returned") =>
          \A k \in 1..Len(rebuilt) : PerSegmentNumbers \subseteq DOMAIN rebuilt[k]

\* C26: on a Scenario A frame (1000 bars, RSI below 30 on 50 evenly spread
\* days, 40 of them followed by a gain of at least 10 percent over 60 bars,
\* about a tenth of all bars qualifying), with holding_period 60, min_return
\* 10, the discovery segment ending at bar 699 and train_ratio 0.7, the
\* pattern RSI_Oversold_30 passes the frequency validation and is validated
\* with a Test lift of at least 1.2.
ScenarioQualifying == { i \in 0..Len(df) - 61 : 10 * CloseAt(df, i + 60) >= 11 * CloseAt(df, i) }
ScenarioOccurrences == { i \in 0..Len(df) - 1 : At(df, i).ind["rsi"][1] < Num(30, 1) }

C26_ScenarioA ==
    /\ (op \in {"scenario_frequency", "scenario_validate"}) =>
          /\ Len(df) = 1000
          /\ Cardinality(ScenarioOccurrences) = 50
          /\ Cardinality(ScenarioOccurrences \cap ScenarioQualifying) = 40
          /\ Cardinality(ScenarioQualifying) \in 93..95
    /\ (op = "scenario_frequency" /\ pc = "returned") =>
          /\ stats_list[1].passed
          /\ passed_patterns = <<ScenarioPattern>>
    /\ (op = "scenario_validate" /\ pc \in {"returned", "raised"}) =>
          /\ raised = "none" /\ split_idx = 700
          /\ performances[1].validated
          /\ validated_patterns = <<ScenarioPattern>>
          /\ 5 * performances[1].lift_test.n >= 6 * performances[1].lift_test.d

\* the least favourable frame: the pattern wins on 5 of its 12 Test days and
\* the other qualifying bars are all in Test
C26_Witness ==
    /\ op = "scenario_validate" /\ pc = "returned"
    /\ performances[1].test_pattern_days = 12
    /\ performances[1].test_profit_days = 5
    /\ performances[1].train_pattern_days = 32
    /\ 5 * baseline_test.n > baseline_test.d

\* C27: in the profitability validator every forward return stays inside one
\* segment: the occurrences, wins and baseline of Train are the same whatever
\* the closes of Test are, and those of Test whatever the closes of Train are;
\* and a bar in the last holding_period rows of Train or of Test is evaluated
\* in neither segment.
Reclosed(bars, close) ==
    [ k \in 1..Len(df) |-> IF k - 1 \in bars THEN [ df[k] EXCEPT !.Close = close ] ELSE df[k] ]

QualifiesOn(f, bars) ==
    { i \in bars : /\ i + holding_period \in bars
                   /\ 100 * (CloseAt(f, i + holding_period) - CloseAt(f, i))
                         >= min_return * CloseAt(f, i) }

MatchesOn(bars, pattern) ==
    { i \in bars : Matches(pattern.conditions, At(df, i).ind) }

OtherCloses == {1, 100000}

LastRows ==
    { i \in TrainBars : i + holding_period >= split_idx }
    \cup { i \in TestBars : i + holding_period >= Len(df) }

C27_ReturnsInsideSegment ==
    ValidatorDone =>
        \A c \in OtherCloses :
            LET train == QualifiesOn(Reclosed(TestBars, c), TrainBars)
                test  == QualifiesOn(Reclosed(TrainBars, c), TestBars)
            IN /\ Len(TrainSeg) > holding_period =>
                    baseline_train.n * (Len(TrainSeg) - holding_period)
                       = Cardinality(train) * baseline_train.d
               /\ Len(TestSeg) > holding_period =>
                    baseline_test.n * (Len(TestSeg) - holding_period)
                       = Cardinality(test) * baseline_test.d
               /\ \A k \in 1..Len(performances) :
                     LET p == performances[k]
                         hits == MatchesOn(0..Len(df) - 1, val_patterns[k])
                     IN /\ p.train_profit_days = Cardinality(train \cap hits)
                        /\ p.test_profit_days = Cardinality(test \cap hits)
                        /\ p.train_pattern_days + p.test_pattern_days
                              = Cardinality(hits \ LastRows)

\* a validated run in which a pattern matches a bar of the last holding_period
\* rows of Train whose close holding_period bars later, a Test close, is a gain
\* of at least min_return, and the pattern wins in both segments
C27_Witness ==
    /\ ValidatorDone
    /\ \E k \in 1..Len(performances) :
          /\ performances[k].train_profit_days > 0
          /\ performances[k].test_profit_days > 0
          /\ \E i \in LastRows \cap TrainBars :
                /\ i + holding_period < Len(df)
                /\ Matches(val_patterns[k].conditions, At(df, i).ind)
                /\ 100 * (CloseAt(df, i + holding_period) - CloseAt(df, i))
                      >= min_return * CloseAt(df, i)

\* C28: for every pattern and segment the win count is at most the
\* occurrence count and the win rate lies in [0, 1]; a pattern that matches
\* every bar of a segment that has its horizon inside the segment (one with
\* no condition, for example) has that segment's baseline as its win rate
\* there, and is not validated.
InUnitInterval(q) == q.d > 0 /\ 0 <= q.n /\ q.n <= q.d

MatchesEveryBar(bars, pattern) ==
    \A i \in bars : i + holding_period \in bars =>
        Matches(pattern.conditions, At(df, i).ind)

C28_WinRateBounds ==
    ValidatorDone =>
        \A k \in 1..Len(performances) :
            LET p == performances[k] IN
            /\ 0 <= p.train_profit_days /\ p.train_profit_days <= p.train_pattern_days
            /\ 0 <= p.test_profit_days /\ p.test_profit_days <= p.test_pattern_days
            /\ InUnitInterval(p.train_win_rate) /\ InUnitInterval(p.test_win_rate)
            /\ MatchesEveryBar(TrainBars, val_patterns[k]) =>
                  /\ p.train_win_rate = baseline_train
                  /\ ~p.validated
                  /\ ~IsOneOf(val_patterns[k], validated_patterns)
            /\ MatchesEveryBar(TestBars, val_patterns[k]) =>
                  /\ p.test_win_rate = baseline_test
                  /\ ~p.validated

\* a pattern without conditions occurs often enough in both segments and
\* wins on some but not all of its days: only its win rate, equal to the
\* baseline, keeps it from being validated
C28_Witness ==
    /\ ValidatorDone
    /\ \E k \in 1..Len(performances) :
          /\ val_patterns[k].conditions = << >>
          /\ performances[k].train_pattern_days >= MinTrainDays
          /\ performances[k].test_pattern_days >= MinTestDays
          /\ performances[k].train_profit_days > 0
          /\ performances[k].train_profit_days < performances[k].train_pattern_days
          /\ performances[k].test_profit_days > 0
          /\ performances[k].train_win_rate = baseline_train
          /\ performances[k].lift_test = [n |-> 1, d |-> 1]
          /\ ~performances[k].validated

\* C29: for any frame and any integer lookback_days, check_signals raises
\* nothing; every signal has days_ago in 0 .. min(lookback_days, len) - 1 and
\* carries the date and close of bar len - 1 - days_ago, which its pattern
\* matches; with lookback_days above the number of bars every bar is scanned;
\* with lookback_days <= 0 or an empty frame the list is empty; and signals
\* equal in days_ago and test_win_rate are in catalog order.
CatalogIndex(name) ==
    CHOOSE k \in 1..Len(VALIDATED_PATTERNS) : VALIDATED_PATTERNS[k].name = name

MinOf(a, b) == IF a < b THEN a ELSE b

C29_SignalWindowSafe ==
    SignalsReturned =>
        /\ raised = "none"
        /\ \A k \in 1..Len(signals) :
              LET s == signals[k]
                  bar == Len(df) - 1 - s.days_ago
              IN /\ s.days_ago \in 0..MinOf(lookback_days, Len(df)) - 1
                 /\ s.date = DateAt(df, bar) /\ s.price = CloseAt(df, bar)
                 /\ Matches(CatalogPattern(s.pattern).conditions, At(df, bar).ind)
        /\ lookback_days > Len(df) =>
              \A i \in 0..Len(df) - 1 : \A name \in CatalogNames :
                  Matches(CatalogPattern(name).conditions, At(df, i).ind) =>
                      \E k \in 1..Len(signals) :
                          /\ signals[k].pattern = name
                          /\ signals[k].days_ago = Len(df) - 1 - i
        /\ (lookback_days <= 0 \/ Len(df) = 0) => signals = << >>
        /\ \A k \in 1..Len(signals) : \A l \in k + 1..Len(signals) :
              (/\ signals[k].days_ago = signals[l].days_ago
               /\ signals[k].test_win_rate = signals[l].test_win_rate)
                  => CatalogIndex(signals[k].pattern) < CatalogIndex(signals[l].pattern)

\* lookback_days is above the length of a frame whose first bar gives a
\* signal, and two signals of one bar have the same test_win_rate
C29_Witness ==
    /\ SignalsReturned
    /\ lookback_days > Len(df) /\ Len(df) >= 2
    /\ \E k \in 1..Len(signals) : signals[k].days_ago = Len(df) - 1
    /\ \E k \in 1..Len(signals) - 1 :
          /\ signals[k].days_ago = signals[k + 1].days_ago
          /\ signals[k].test_win_rate = signals[k + 1].test_win_rate

\* C30: every record of VALIDATED_PATTERNS fits the pipeline: its name is
\* unique in the catalog, its name, category and conditions are those of the
\* generator template of that name, every range has min <= max,
\* train_occurrences >= 20, test_occurrences >= 10 and lift >= 1.2; and
\* get_pattern_by_name returns the one record with the name, or None when no
\* record has it.
AllTemplates == define_patterns([ ind \in Indicators |-> StatsOf(<<Num(30, 1)>>) ])

ConditionSet(conditions) == { conditions[k] : k \in 1..Len(conditions) }

CatalogConsistent ==
    \A k \in 1..Len(VALIDATED_PATTERNS) :
        LET r == VALIDATED_PATTERNS[k] IN
        /\ \A l \in 1..Len(VALIDATED_PATTERNS) : VALIDATED_PATTERNS[l].name = r.name => l = k
        /\ \E t \in 1..Len(AllTemplates) :
              /\ AllTemplates[t].name = r.name
              /\ AllTemplates[t].category = r.category
              /\ ConditionSet(AllTemplates[t].conditions) = ConditionSet(r.conditions)
              /\ Len(AllTemplates[t].conditions) = Len(r.conditions)
        /\ \A c \in ConditionSet(r.conditions) : c.lo <= c.hi
        /\ r.train_occurrences >= MinTrainDays
        /\ r.test_occurrences >= MinTestDays
        /\ r.lift * MinLift.d >= 100 * MinLift.n

====
